---- MODULE Spec2Model ----
(***************************************************************************)
(* HealthManager: the FHIR resource mapper (app/services/fhir_mapper.py)   *)
(* and the request handlers that store patients, reports, observations and *)
(* documents (app/routes/*.py), for the main app and for the               *)
(* bloodwork-tracker copy.                                                 *)
(*                                                                         *)
(* Conventions                                                             *)
(*  - A Python value that may be None is an Option: None is <<>> and a     *)
(*    value v is <<v>>.                                                    *)
(*  - A Python dict is a function whose DOMAIN is the set of keys present. *)
(*  - Strings that the code transforms (name, gender, category) are        *)
(*    sequences of characters; opaque strings are TLA+ strings.            *)
(*  - A function that raises returns Raise.                                *)
(*  - The database is SQLite as configured in config.py: UNIQUE and        *)
(*    NOT NULL are enforced, FOREIGN KEY is not (no PRAGMA foreign_keys).  *)
(***************************************************************************)
EXTENDS Integers, Sequences, FiniteSets, TLC

VARIABLES
    patients,      \* table patients
    reports,       \* table test_reports
    observations,  \* table observations
    documents,     \* table medical_documents
    biomarkers,    \* table biomarkers (no route of the app writes it)
    resp,          \* the last request and its response
    mIn,           \* mapper workbench: the record handed to the mapper
    mOut,          \* mapper workbench: what the round trip returned
    blacklisted_tokens,  \* routes/auth.py: the jti of every token logged out
    files,         \* the files under UPLOAD_FOLDER
    config,        \* config.py: the settings read from the environment
    session,       \* flask.session: the signed cookie the client holds
    requests       \* the requests being handled and where each one is

vars == <<patients, reports, observations, documents, biomarkers, resp, mIn, mOut,
          blacklisted_tokens, files, config, session, requests>>

dbvars == <<patients, reports, observations, documents, biomarkers, resp,
            blacklisted_tokens, files, config, session, requests>>

-----------------------------------------------------------------------------
(* Python values *)

None == <<>>

Some(v) == <<v>>

Raise == [exc |-> TRUE]

\* x is a record (or None)
IsRaise(x) == "exc" \in DOMAIN x

EmptyDict == <<>>

\* d.get(k), an Option
GetOpt(d, k) == IF k \in DOMAIN d THEN Some(d[k]) ELSE None

\* d.get(k, default)
Get(d, k, default) == IF k \in DOMAIN d THEN d[k] ELSE default

\* {k: v for k, v in d.items() if v is not None}, d's values being Options
RemoveNone(d) == [k \in {x \in DOMAIN d : d[x] # None} |-> d[k][1]]

-----------------------------------------------------------------------------
(* Character strings *)

LowerChar(c) ==
    CASE c = "M" -> "m"
      [] c = "F" -> "f"
      [] c = "L" -> "l"
      [] c = "A" -> "a"
      [] c = "O" -> "o"
      [] c = "I" -> "i"
      [] c = "P" -> "p"
      [] c = "D" -> "d"
      [] OTHER -> c

UpperChar(c) ==
    CASE c = "m" -> "M"
      [] c = "f" -> "F"
      [] c = "l" -> "L"
      [] c = "a" -> "A"
      [] c = "b" -> "B"
      [] OTHER -> c

IsCased(c) == LowerChar(c) # c \/ UpperChar(c) # c

\* str.lower()
StrLower(s) == [i \in 1..Len(s) |-> LowerChar(s[i])]

\* str.title(): a cased character is upper case after an uncased one (or at
\* the start) and lower case after a cased one
StrTitle(s) ==
    [i \in 1..Len(s) |->
        IF i = 1 \/ ~IsCased(s[i - 1]) THEN UpperChar(s[i]) ELSE LowerChar(s[i])]

RECURSIVE LStrip(_)
LStrip(s) == IF s # <<>> /\ Head(s) = " " THEN LStrip(Tail(s)) ELSE s

RECURSIVE RStrip(_)
RStrip(s) ==
    IF s # <<>> /\ s[Len(s)] = " " THEN RStrip(SubSeq(s, 1, Len(s) - 1)) ELSE s

\* str.strip()
StrStrip(s) == RStrip(LStrip(s))

Digit(n) ==
    CASE n = 0 -> "0" [] n = 1 -> "1" [] n = 2 -> "2" [] n = 3 -> "3"
      [] n = 4 -> "4" [] n = 5 -> "5" [] n = 6 -> "6" [] n = 7 -> "7"
      [] n = 8 -> "8" [] n = 9 -> "9"

\* str(n) for a non-negative int
RECURSIVE IntToStr(_)
IntToStr(n) == IF n < 10 THEN <<Digit(n)>> ELSE IntToStr(n \div 10) \o <<Digit(n % 10)>>

sUnknownPatient == <<"U", "n", "k", "n", "o", "w", "n", " ", "P", "a", "t", "i", "e", "n", "t">>

sLaboratory == <<"l", "a", "b", "o", "r", "a", "t", "o", "r", "y">>

sLocal == <<"l", "o", "c", "a", "l", ":">>

sMock == <<"m", "o", "c", "k">>

sOpenai == <<"o", "p", "e", "n", "a", "i">>

sOllama == <<"o", "l", "l", "a", "m", "a">>

sLmstudio == <<"l", "m", "s", "t", "u", "d", "i", "o">>

\* Config with nothing set in the environment
DefaultConfig == [AI_PROVIDER |-> sMock, AI_SEND_TO_CLOUD |-> FALSE]

-----------------------------------------------------------------------------
(* datetime.date, datetime.datetime and their ISO 8601 text.  The text     *)
(* "YYYY-MM-DD" is the sequence of its 3 numbers, "YYYY-MM-DDTHH:MM:SS"    *)
(* of its 6, and with ".ffffff" of its 7.                                  *)

Date(y, m, d) == [y |-> y, m |-> m, d |-> d]

DateTime(y, m, d, hh, mm, ss, us) ==
    [y |-> y, m |-> m, d |-> d, hh |-> hh, mm |-> mm, ss |-> ss, us |-> us]

IsDateTime(t) == "hh" \in DOMAIN t

\* date.isoformat() and datetime.isoformat()
isoformat(t) ==
    IF ~IsDateTime(t) THEN <<t.y, t.m, t.d>>
    ELSE IF t.us = 0 THEN <<t.y, t.m, t.d, t.hh, t.mm, t.ss>>
    ELSE <<t.y, t.m, t.d, t.hh, t.mm, t.ss, t.us>>

\* a parser that accepts any text and never raises
fromisoformatMut(s) == DateTime(s[1], 1, 1, 0, 0, 0, 0)

\* datetime.fromisoformat(s): always a datetime, midnight for a bare date
fromisoformat(s) ==
    CASE Len(s) = 3 -> DateTime(s[1], s[2], s[3], 0, 0, 0, 0)
      [] Len(s) = 6 -> DateTime(s[1], s[2], s[3], s[4], s[5], s[6], 0)
      [] Len(s) = 7 -> DateTime(s[1], s[2], s[3], s[4], s[5], s[6], s[7])
      [] OTHER -> Raise

-----------------------------------------------------------------------------
(* References "Patient/<fhir_id>" *)

\* f"Patient/{fhir_id}"
PatientRef(fid) == [prefix |-> "Patient/", rest |-> fid]

\* subject_ref.startswith('Patient/')
IsPatientRef(ref) == ref.prefix = "Patient/"

\* resource.get('subject', {}).get('reference', '')
SubjectRef(res) ==
    IF "subject" \in DOMAIN res /\ "reference" \in DOMAIN res.subject
    THEN res.subject.reference
    ELSE [prefix |-> "", rest |-> <<"", 0>>]

-----------------------------------------------------------------------------
(* FHIRMapper: Patient *)

NoId == 0

\* Patient.__init__; uuid is the value uuid.uuid4() returns
Patient(name, birth_date, gender, notes, uuid) ==
    [id |-> NoId, fhir_id |-> uuid, name |-> name, birth_date |-> birth_date,
     gender |-> gender, notes |-> notes]

patient_to_fhir(patient) ==
    RemoveNone(
        [resourceType |-> Some("Patient"),
         id |-> Some(patient.fhir_id),
         identifier |-> Some(<<[use |-> "usual",
                                type |-> [coding |-> <<[system |-> "http://terminology.hl7.org/CodeSystem/v2-0203",
                                                        code |-> "MR",
                                                        display |-> "Medical Record Number"]>>],
                                value |-> IntToStr(patient.id)]>>),
         name |-> Some(<<[use |-> "official", text |-> patient.name]>>),
         gender |-> IF patient.gender # None /\ patient.gender[1] # <<>>
                    THEN Some(StrLower(patient.gender[1])) ELSE None,
         birthDate |-> IF patient.birth_date # None
                       THEN Some(isoformat(patient.birth_date[1])) ELSE None,
         note |-> Some(IF patient.notes # None /\ patient.notes[1] # ""
                       THEN <<[text |-> patient.notes[1]]>> ELSE <<>>)])

\* name_entry.get("text") or name_entry.get("family", "") + " " + name_entry.get("given", [""])[0]
NameOf(name_entry) ==
    IF "text" \in DOMAIN name_entry /\ name_entry.text # <<>>
    THEN name_entry.text
    ELSE Get(name_entry, "family", <<>>) \o <<" ">> \o Get(name_entry, "given", <<<<>>>>)[1]

\* [""][0] of an empty "given" list is an IndexError
NameRaises(name_entry) ==
    /\ ~("text" \in DOMAIN name_entry /\ name_entry.text # <<>>)
    /\ "given" \in DOMAIN name_entry /\ name_entry.given = <<>>

\* name.strip() or fallback
StrippedOr(name, fallback) == IF StrStrip(name) # <<>> THEN StrStrip(name) ELSE fallback

fhir_to_patient(fhir_patient, uuid) ==
    LET name_entry == IF "name" \in DOMAIN fhir_patient /\ fhir_patient.name # <<>>
                      THEN fhir_patient.name[1] ELSE EmptyDict
        name == NameOf(name_entry)
        birth == IF "birthDate" \in DOMAIN fhir_patient /\ fhir_patient.birthDate # <<>>
                 THEN fromisoformat(fhir_patient.birthDate) ELSE None
        patient == Patient(StrippedOr(name, sUnknownPatient),
                           IF birth = None THEN None ELSE Some(birth),
                           GetOpt(fhir_patient, "gender"),
                           IF "note" \in DOMAIN fhir_patient /\ fhir_patient.note # <<>>
                           THEN GetOpt(fhir_patient.note[1], "text") ELSE None,
                           uuid)
    IN  IF NameRaises(name_entry) \/ IsRaise(birth) THEN Raise
        ELSE [patient EXCEPT !.fhir_id = Get(fhir_patient, "id", uuid)]

-----------------------------------------------------------------------------
(* FHIRMapper: Observation *)

\* opaque string truthiness: `x if s else y` for an Option of a TLA+ string
Truthy(opt) == opt # None /\ opt[1] # ""

\* Observation.__init__
Observation(patient_id, report_id, biomarker_id, effective_datetime, value, status, category, unit, ref_min, ref_max, interpretation, notes, performer, specimen, method, uuid) ==
    [id |-> NoId, fhir_id |-> uuid, patient_id |-> patient_id, report_id |-> report_id,
     biomarker_id |-> biomarker_id, status |-> status, category |-> category,
     effective_datetime |-> effective_datetime, value |-> value, unit |-> unit,
     ref_min |-> ref_min, ref_max |-> ref_max, interpretation |-> interpretation,
     notes |-> notes, performer |-> performer, specimen |-> specimen, method |-> method]

_get_interpretation_display(code) ==
    CASE code = "H" -> "High"
      [] code = "L" -> "Low"
      [] code = "N" -> "Normal"
      [] code = "A" -> "Abnormal"
      [] code = "AA" -> "Critical abnormal"
      [] OTHER -> code

\* the quantity dict built for valueQuantity, low and high
Quantity(value, unit, unit_info) ==
    [value |-> value,
     unit |-> IF Truthy(unit) THEN unit[1]
              ELSE IF unit_info # None THEN unit_info[1].display ELSE "",
     system |-> IF unit_info # None THEN unit_info[1].system ELSE "http://unitsofmeasure.org",
     code |-> IF Truthy(unit) THEN unit[1]
              ELSE IF unit_info # None THEN unit_info[1].code ELSE ""]

\* _remove_none_values on a nested dict whose members may be None, kept null
\* instead of removed
_remove_none_valuesMut(obj) == [k \in DOMAIN obj |-> IF obj[k] = None THEN None ELSE obj[k][1]]

\* _remove_none_values descending into a nested dict: the members that are
\* None are removed (the top-level pass is RemoveNone)
_remove_none_values(obj) == [k \in {x \in DOMAIN obj : obj[x] # None} |-> obj[k][1]]

\* observation.biomarker and observation.patient are the rows the
\* relationships load, None when there is no such row
observation_to_fhir(observation, biomarker, patient) ==
    IF biomarker = None \/ patient = None \/ observation.category = None THEN Raise
    ELSE
    LET loinc_code == biomarker[1].loinc
        unit_info == biomarker[1].unit
        o == observation
    IN  RemoveNone(
        [resourceType |-> Some("Observation"),
         id |-> Some(o.fhir_id),
         status |-> o.status,
         category |-> Some(<<[coding |-> <<[system |-> "http://terminology.hl7.org/CodeSystem/observation-category",
                                            code |-> o.category[1],
                                            display |-> StrTitle(o.category[1])]>>]>>),
         code |-> Some([coding |-> <<[system |-> IF loinc_code # None THEN loinc_code[1].system
                                                 ELSE "http://local/biomarkers",
                                      code |-> IF loinc_code # None THEN loinc_code[1].code
                                               ELSE sLocal \o IntToStr(biomarker[1].id),
                                      display |-> IF loinc_code # None THEN loinc_code[1].display
                                                  ELSE biomarker[1].name]>>,
                        text |-> biomarker[1].name]),
         subject |-> Some([reference |-> PatientRef(patient[1].fhir_id)]),
         effectiveDateTime |-> Some(isoformat(o.effective_datetime)),
         valueQuantity |-> IF o.value # None
                           THEN Some(Quantity(o.value[1], o.unit, unit_info)) ELSE None,
         interpretation |-> Some(IF Truthy(o.interpretation)
                                 THEN <<[coding |-> <<[system |-> "http://terminology.hl7.org/CodeSystem/v3-ObservationInterpretation",
                                                       code |-> o.interpretation[1],
                                                       display |-> _get_interpretation_display(o.interpretation[1])]>>]>>
                                 ELSE <<>>),
         referenceRange |-> Some(IF o.ref_min # None \/ o.ref_max # None
                                 THEN <<_remove_none_values(
                                        [low |-> IF o.ref_min # None
                                                 THEN Some(Quantity(o.ref_min[1], o.unit, unit_info))
                                                 ELSE None,
                                         high |-> IF o.ref_max # None
                                                  THEN Some(Quantity(o.ref_max[1], o.unit, unit_info))
                                                  ELSE None])>>
                                 ELSE <<>>),
         performer |-> Some(IF Truthy(o.performer) THEN <<[display |-> o.performer[1]]>> ELSE <<>>),
         specimen |-> IF Truthy(o.specimen) THEN Some([display |-> o.specimen[1]]) ELSE None,
         method |-> IF Truthy(o.method) THEN Some([text |-> o.method[1]]) ELSE None,
         note |-> Some(IF Truthy(o.notes) THEN <<[text |-> o.notes[1]]>> ELSE <<>>)])

_extract_category(fhir_observation) ==
    LET categories == Get(fhir_observation, "category", <<>>)
        codings == IF categories # <<>> THEN Get(categories[1], "coding", <<>>) ELSE <<>>
    IN  IF codings # <<>> THEN Get(codings[1], "code", sLaboratory) ELSE sLaboratory

_extract_diagnostic_category(fhir_report) ==
    LET categories == Get(fhir_report, "category", <<>>)
        codings == IF categories # <<>> THEN Get(categories[1], "coding", <<>>) ELSE <<>>
    IN  IF codings # <<>> THEN Get(codings[1], "code", sLaboratory) ELSE sLaboratory

\* biomarker_id = 1  # Placeholder
PlaceholderBiomarkerId == 1

\* d.get(k, [{}])[0].get(leaf) if d.get(k) else None
FirstLeaf(d, k, leaf) ==
    IF k \in DOMAIN d /\ d[k] # <<>> THEN GetOpt(d[k][1], leaf) ELSE None

\* d.get(k, {}).get(leaf) if d.get(k) else None
DictLeaf(d, k, leaf) ==
    IF k \in DOMAIN d /\ d[k] # EmptyDict THEN GetOpt(d[k], leaf) ELSE None

fhir_to_observation(fhir_observation, patient_id, report_id, uuid) ==
    LET f == fhir_observation
        value_quantity == Get(f, "valueQuantity", EmptyDict)
        ref_ranges == Get(f, "referenceRange", <<>>)
        ref_min == IF ref_ranges # <<>> /\ "low" \in DOMAIN ref_ranges[1]
                   THEN GetOpt(ref_ranges[1].low, "value") ELSE None
        ref_max == IF ref_ranges # <<>> /\ "high" \in DOMAIN ref_ranges[1]
                   THEN GetOpt(ref_ranges[1].high, "value") ELSE None
        interpretations == Get(f, "interpretation", <<>>)
        badInterp == interpretations # <<>> /\ Get(interpretations[1], "coding", <<EmptyDict>>) = <<>>
        interpretation == IF interpretations # <<>> /\ ~badInterp
                          THEN GetOpt(Get(interpretations[1], "coding", <<EmptyDict>>)[1], "code")
                          ELSE None
        when == IF "effectiveDateTime" \in DOMAIN f
                THEN fromisoformat(f.effectiveDateTime) ELSE Raise
        observation ==
            Observation(patient_id, report_id, PlaceholderBiomarkerId, when,
                        GetOpt(value_quantity, "value"),
                        Some(Get(f, "status", "unknown")),
                        Some(_extract_category(f)),
                        GetOpt(value_quantity, "unit"),
                        ref_min, ref_max, interpretation,
                        FirstLeaf(f, "note", "text"),
                        FirstLeaf(f, "performer", "display"),
                        DictLeaf(f, "specimen", "display"),
                        DictLeaf(f, "method", "text"),
                        uuid)
    IN  IF badInterp \/ IsRaise(when) THEN Raise
        ELSE [observation EXCEPT !.fhir_id = Get(f, "id", uuid)]

-----------------------------------------------------------------------------
(* FHIRMapper: DiagnosticReport *)

\* TestReport.__init__; issued is filled by the column default on INSERT
TestReport(patient_id, effective_datetime, status, category, conclusion, conclusion_code, uuid) ==
    [id |-> NoId, fhir_id |-> uuid, patient_id |-> patient_id, status |-> status,
     category |-> category, effective_datetime |-> effective_datetime,
     issued |-> None, conclusion |-> conclusion, conclusion_code |-> conclusion_code]

\* report.patient is the row the relationship loads, None when there is none
report_to_fhir(report, patient) ==
    IF patient = None \/ report.category = None \/ report.issued = None THEN Raise
    ELSE
    RemoveNone(
        [resourceType |-> Some("DiagnosticReport"),
         id |-> Some(report.fhir_id),
         status |-> report.status,
         category |-> Some(<<[coding |-> <<[system |-> "http://terminology.hl7.org/CodeSystem/v2-0074",
                                            code |-> report.category[1],
                                            display |-> StrTitle(report.category[1])]>>]>>),
         code |-> Some([coding |-> <<[system |-> "http://loinc.org",
                                      code |-> "24323-8",
                                      display |-> "Laboratory studies (set)"]>>,
                        text |-> "Laboratory Results"]),
         subject |-> Some([reference |-> PatientRef(patient[1].fhir_id)]),
         effectiveDateTime |-> Some(isoformat(report.effective_datetime)),
         issued |-> Some(isoformat(report.issued[1])),
         result |-> Some(<<>>),
         conclusion |-> report.conclusion,
         conclusionCode |-> Some(IF Truthy(report.conclusion_code)
                                 THEN <<[coding |-> <<[system |-> "http://snomed.info/sct",
                                                       code |-> report.conclusion_code[1],
                                                       display |-> report.conclusion_code[1]]>>]>>
                                 ELSE <<>>)])

fhir_to_report(fhir_report, patient_id, uuid) ==
    LET f == fhir_report
        when == IF "effectiveDateTime" \in DOMAIN f
                THEN fromisoformat(f.effectiveDateTime) ELSE Raise
        ccs == Get(f, "conclusionCode", <<>>)
        badCode == ccs # <<>> /\ Get(ccs[1], "coding", <<EmptyDict>>) = <<>>
        report ==
            TestReport(patient_id, when,
                       Some(Get(f, "status", "unknown")),
                       Some(_extract_diagnostic_category(f)),
                       GetOpt(f, "conclusion"),
                       IF ccs # <<>> /\ ~badCode
                       THEN GetOpt(Get(ccs[1], "coding", <<EmptyDict>>)[1], "code")
                       ELSE None,
                       uuid)
    IN  IF badCode \/ IsRaise(when) THEN Raise
        ELSE [report EXCEPT !.fhir_id = Get(f, "id", uuid)]

-----------------------------------------------------------------------------
(* Mapper workbench: a record is drawn, mapped to FHIR and mapped back *)

sAl == <<"A", "l">>

sMale == <<"m", "a", "l", "e">>

ClientFhirId == <<"c", 1>>

Uuids == {<<"u", 1>>, <<"u", 2>>}

Morning == DateTime(2024, 1, 15, 10, 30, 0, 0)

Midnight == DateTime(2024, 1, 15, 0, 0, 0, 5)

OptText == {None, Some(""), Some("x")}

\* stored patients as the tests build them
PatientInputs ==
    [id : {1, 12}, fhir_id : {ClientFhirId},
     name : {sAl},
     birth_date : {None, Some(Date(1990, 5, 15))},
     gender : {None, Some(sMale)},
     notes : {None, Some("x")}]

LoincGlucose == [system |-> "http://loinc.org", code |-> <<"2", "3">>, display |-> "Glucose"]

UcumMgDl == [system |-> "http://unitsofmeasure.org", code |-> "mg/dL", display |-> "mg/dL"]

\* rows of table biomarkers, with the rows their relationships load
Biomarker(id, name, loinc, unit) == [id |-> id, name |-> name, loinc |-> loinc, unit |-> unit]

BareBiomarker(id) == Biomarker(id, "Glucose", None, None)

FullBiomarker(id) == Biomarker(id, "Glucose", Some(LoincGlucose), Some(UcumMgDl))

\* a stored observation (the NOT NULL columns hold values) with the rows
\* its relationships load
ObservationInputs ==
    {[rec |-> [id |-> 1, fhir_id |-> ClientFhirId, patient_id |-> 1, report_id |-> 2,
               biomarker_id |-> bm[1], status |-> st, category |-> cat,
               effective_datetime |-> tv[1], value |-> Some(tv[2]), unit |-> unit,
               ref_min |-> rng[1], ref_max |-> rng[2], interpretation |-> interp,
               notes |-> txt[1], performer |-> txt[2], specimen |-> txt[3],
               method |-> txt[4]],
      biomarker |-> bm[2],
      patient |-> Some([fhir_id |-> <<"c", 2>>])] :
        bm \in {<<1, Some(BareBiomarker(1))>>, <<2, Some(FullBiomarker(2))>>, <<PlaceholderBiomarkerId, None>>},
        cat \in {Some(sLaboratory)},
        st \in {None, Some("final")},
        tv \in {<<Morning, 0>>, <<Midnight, 95>>},
        unit \in {None, Some(""), Some("mg/dL")},
        rng \in {None, Some(0)} \X {None, Some(100)},
        interp \in {None, Some(""), Some("H")},
        txt \in OptText \X OptText \X OptText \X OptText}

\* a stored report (issued was filled by the column default) with its patient
ReportInputs ==
    {[rec |-> [id |-> 1, fhir_id |-> ClientFhirId, patient_id |-> 1,
               status |-> st, category |-> cat, effective_datetime |-> when,
               issued |-> Some(Morning), conclusion |-> c[1], conclusion_code |-> c[2]],
      patient |-> Some([fhir_id |-> <<"c", 2>>])] :
        cat \in {Some(sLaboratory)},
        st \in {None, Some("final")},
        when \in {Morning, Midnight},
        c \in {None, Some("x")} \X {None, Some("x")}}

NoResult == [kind |-> "none"]

\* fhir_to_x(x_to_fhir(rec)); a raise of x_to_fhir propagates
RoundTrip(kind, fhir, back) ==
    [kind |-> kind, fhir |-> fhir, rec |-> IF IsRaise(fhir) THEN Raise ELSE back]

MapPatient ==
    /\ mOut = NoResult /\ mIn.kind = "Patient"
    /\ \E uuid \in Uuids :
         LET fhir == patient_to_fhir(mIn.rec)
         IN  mOut' = RoundTrip("Patient", fhir, fhir_to_patient(fhir, uuid))
    /\ UNCHANGED <<dbvars, mIn>>

MapObservation ==
    /\ mOut = NoResult /\ mIn.kind = "Observation"
    /\ \E uuid \in Uuids :
         LET fhir == observation_to_fhir(mIn.rec, mIn.biomarker, mIn.patient)
         IN  mOut' = RoundTrip("Observation", fhir,
                               fhir_to_observation(fhir, mIn.rec.patient_id,
                                                   mIn.rec.report_id, uuid))
    /\ UNCHANGED <<dbvars, mIn>>

MapReport ==
    /\ mOut = NoResult /\ mIn.kind = "DiagnosticReport"
    /\ \E uuid \in Uuids :
         LET fhir == report_to_fhir(mIn.rec, mIn.patient)
         IN  mOut' = RoundTrip("DiagnosticReport", fhir,
                               fhir_to_report(fhir, mIn.rec.patient_id, uuid))
    /\ UNCHANGED <<dbvars, mIn>>

NoRequest == [status |-> 0, target |-> <<>>]

InitMap ==
    /\ patients = {} /\ reports = {} /\ observations = {} /\ documents = {}
    /\ biomarkers = {} /\ resp = NoRequest
    /\ blacklisted_tokens = {} /\ files = {} /\ config = DefaultConfig
    /\ session = EmptyDict /\ requests = <<>>
    /\ mOut = NoResult
    /\ \/ \E p \in PatientInputs : mIn = [kind |-> "Patient", rec |-> p]
       \/ \E o \in ObservationInputs :
            mIn = [kind |-> "Observation", rec |-> o.rec, biomarker |-> o.biomarker,
                   patient |-> o.patient]
       \/ \E r \in ReportInputs :
            mIn = [kind |-> "DiagnosticReport", rec |-> r.rec, patient |-> r.patient]

NextMap == MapPatient \/ MapObservation \/ MapReport

SpecMap == InitMap /\ [][NextMap]_vars

-----------------------------------------------------------------------------
(* Import workbench: a FHIR resource with any of its optional elements     *)
(* missing is handed to the mapper, twice                                  *)

\* the dict d without the keys outside K
Restrict(d, K) == [k \in K |-> d[k]]

\* Patient resources: every optional element present or absent, and the
\* shapes a name entry can take
FhirPatients ==
    LET full == [id |-> ClientFhirId, name |-> <<>>, gender |-> sMale,
                 birthDate |-> <<1990, 5, 15>>, note |-> <<[text |-> "x"]>>]
        names == {<<>>, <<EmptyDict>>, <<[text |-> sAl]>>, <<[family |-> sAl]>>,
                  <<[given |-> <<sAl>>]>>, <<[family |-> sAl, given |-> <<sAl>>]>>,
                  <<[given |-> <<>>]>>, <<[text |-> sAl, given |-> <<>>]>>}
    IN  {Restrict([full EXCEPT !.name = n], K) : n \in names, K \in SUBSET DOMAIN full}

\* Observation resources: effectiveDateTime is required, everything else is
\* present or absent, and the shapes an interpretation entry can take
FhirObservations ==
    LET full == [id |-> ClientFhirId, status |-> "final",
                 category |-> <<[coding |-> <<[code |-> <<"v">>]>>]>>,
                 effectiveDateTime |-> isoformat(Morning),
                 valueQuantity |-> [value |-> 95, unit |-> "mg/dL"],
                 referenceRange |-> <<[low |-> [value |-> 0]]>>,
                 interpretation |-> <<>>,
                 note |-> <<[text |-> "x"]>>, performer |-> <<[display |-> "x"]>>,
                 specimen |-> [display |-> "x"], method |-> [text |-> "x"]]
        interps == {<<>>, <<EmptyDict>>, <<[coding |-> <<[code |-> "H"]>>]>>,
                    <<[coding |-> <<>>]>>}
    IN  {Restrict([full EXCEPT !.interpretation = i], K \cup {"effectiveDateTime"}) :
            i \in interps, K \in SUBSET DOMAIN full}

\* DiagnosticReport resources, likewise
FhirReports ==
    LET full == [id |-> ClientFhirId, status |-> "final",
                 category |-> <<[coding |-> <<[code |-> <<"v">>]>>]>>,
                 effectiveDateTime |-> isoformat(Morning),
                 conclusion |-> "x", conclusionCode |-> <<>>]
        codes == {<<>>, <<EmptyDict>>, <<[coding |-> <<[code |-> "x"]>>]>>,
                  <<[coding |-> <<>>]>>}
    IN  {Restrict([full EXCEPT !.conclusionCode = c], K \cup {"effectiveDateTime"}) :
            c \in codes, K \in SUBSET DOMAIN full}

\* two calls of fhir_to_patient on the same resource; each call draws its
\* own uuid.uuid4()
ImportPatient ==
    /\ mOut = NoResult /\ mIn.kind = "FhirPatient"
    /\ \E u1, u2 \in Uuids :
         mOut' = [kind |-> mIn.kind, rec |-> fhir_to_patient(mIn.fhir, u1),
                  again |-> fhir_to_patient(mIn.fhir, u2)]
    /\ UNCHANGED <<dbvars, mIn>>

ImportObservation ==
    /\ mOut = NoResult /\ mIn.kind = "FhirObservation"
    /\ \E u1, u2 \in Uuids :
         mOut' = [kind |-> mIn.kind, rec |-> fhir_to_observation(mIn.fhir, 1, 1, u1),
                  again |-> fhir_to_observation(mIn.fhir, 1, 1, u2)]
    /\ UNCHANGED <<dbvars, mIn>>

ImportReport ==
    /\ mOut = NoResult /\ mIn.kind = "FhirReport"
    /\ \E u1, u2 \in Uuids :
         mOut' = [kind |-> mIn.kind, rec |-> fhir_to_report(mIn.fhir, 1, u1),
                  again |-> fhir_to_report(mIn.fhir, 1, u2)]
    /\ UNCHANGED <<dbvars, mIn>>

InitImport ==
    /\ patients = {} /\ reports = {} /\ observations = {} /\ documents = {}
    /\ biomarkers = {} /\ resp = NoRequest
    /\ blacklisted_tokens = {} /\ files = {} /\ config = DefaultConfig
    /\ session = EmptyDict /\ requests = <<>>
    /\ mOut = NoResult
    /\ \/ \E f \in FhirPatients : mIn = [kind |-> "FhirPatient", fhir |-> f]
       \/ \E f \in FhirObservations : mIn = [kind |-> "FhirObservation", fhir |-> f]
       \/ \E f \in FhirReports : mIn = [kind |-> "FhirReport", fhir |-> f]

NextImport == ImportPatient \/ ImportObservation \/ ImportReport

SpecImport == InitImport /\ [][NextImport]_vars

-----------------------------------------------------------------------------
(* The database: four tables of rows, SQLite semantics *)

MAX_PATIENT_PROFILES == 4

MaxOf(S) == CHOOSE x \in S : \A y \in S : y <= x

MinOf(S) == CHOOSE x \in S : \A y \in S : x <= y

\* SQLite INTEGER PRIMARY KEY: the largest rowid of the table plus one
NextRowId(table) == IF table = {} THEN 1 ELSE MaxOf({r.id : r \in table}) + 1

\* uuid.uuid4(): a value that no row holds, named after the row that gets it
Uuid4(kind, table) == <<kind, NextRowId(table)>>

\* datetime.utcnow()
Now == Morning

\* Column(String, unique=True) on fhir_id
UniqueFhirIdMut(table) == TRUE

UniqueFhirId(table) == \A a, b \in table : a.fhir_id = b.fhir_id => a.id = b.id

\* nullable=False on the columns a handler can leave unset
ReportRowOk(r) == r.patient_id # NoId

ObservationRowOk(o) == o.patient_id # NoId /\ o.report_id # NoId /\ o.value # None

\* INSERT of a pending object: the rowid is assigned, column defaults filled
InsertRow(table, row) == table \cup {[row EXCEPT !.id = NextRowId(table)]}

InsertReport(table, report) ==
    InsertRow(table, IF report.issued = None THEN [report EXCEPT !.issued = Some(Now)]
                     ELSE report)

\* UPDATE of the row with this id
UpdateRow(table, row) == {r \in table : r.id # row.id} \cup {row}

\* the four tables as one value
Tables(p, r, o, d) == [patients |-> p, reports |-> r, observations |-> o, documents |-> d]

Cur == Tables(patients, reports, observations, documents)

\* what a flush or COMMIT checks
ConstraintsOk(db) ==
    /\ UniqueFhirId(db.patients) /\ UniqueFhirId(db.reports)
    /\ UniqueFhirId(db.observations)
    /\ \A r \in db.reports : ReportRowOk(r)
    /\ \A o \in db.observations : ObservationRowOk(o)

Store(db) ==
    /\ patients' = db.patients /\ reports' = db.reports
    /\ observations' = db.observations /\ documents' = db.documents

\* the response: its status code and, for a DELETE, the row it addressed
NoTarget == <<>>

Respond(status, target) == resp' = [status |-> status, target |-> target]

Frame == UNCHANGED <<biomarkers, mIn, mOut, blacklisted_tokens, files, config, session, requests>>

\* query.filter_by(fhir_id=...).first()
ByFhirId(table, fid) == {r \in table : r.fhir_id = fid}

ById(table, id) == {r \in table : r.id = id}

TheRow(S) == CHOOSE r \in S : TRUE

\* query.all(): the rows in rowid order
RECURSIVE RowsOf(_)
RowsOf(table) ==
    IF table = {} THEN <<>>
    ELSE LET first == CHOOSE r \in table : \A q \in table : r.id <= q.id
         IN  <<first>> \o RowsOf(table \ {first})

\* the row a relationship attribute loads, as an Option
Related(table, id) == IF ById(table, id) = {} THEN None ELSE Some(TheRow(ById(table, id)))

\* the biomarker rows are bare: no LOINC code, no UCUM unit
BiomarkerRow(id) == BareBiomarker(id)

FhirIdsOf(table) == {r.fhir_id : r \in table}

-----------------------------------------------------------------------------
(* db.session.delete(parent): the unit of work loads the children of every  *)
(* relationship without a delete cascade and sets their foreign key to NULL *)

\* Patient.reports, Patient.observations, Patient.documents: patient_id is
\* nullable=False in all three, so a child makes the flush raise
SessionDeletePatient(db, pid) ==
    IF \/ \E r \in db.reports : r.patient_id = pid
       \/ \E o \in db.observations : o.patient_id = pid
       \/ \E d \in db.documents : d.patient_id = pid
    THEN Raise
    ELSE [db EXCEPT !.patients = {p \in db.patients : p.id # pid}]

\* TestReport.observations (report_id nullable=False) and
\* TestReport.documents (report_id nullable=True)
KeepDocumentsMut(docs, rid) == docs

DetachDocuments(docs, rid) ==
    {IF d.report_id = rid THEN [d EXCEPT !.report_id = NoId] ELSE d : d \in docs}

SessionDeleteReport(db, rid) ==
    IF \E o \in db.observations : o.report_id = rid
    THEN Raise
    ELSE [db EXCEPT !.reports = {r \in db.reports : r.id # rid},
                    !.documents = DetachDocuments(db.documents, rid)]

-----------------------------------------------------------------------------
(* app/routes/patients.py *)

RestPatientBodies == {[name |-> sAl, birth_date |-> None, gender |-> None, notes |-> None]}

rest_create_patient(cap) ==
    /\ \E body \in RestPatientBodies :
        IF Cardinality(patients) >= MAX_PATIENT_PROFILES
        THEN Respond(400, NoTarget) /\ UNCHANGED <<patients>>
        ELSE /\ NextRowId(patients) <= cap
             /\ patients' = InsertRow(patients,
                                      Patient(body.name, body.birth_date, body.gender,
                                              body.notes, Uuid4("P", patients)))
             /\ Respond(201, NoTarget)
    /\ UNCHANGED <<reports, observations, documents>>
    /\ Frame

_delete_patient_related_records(db, patient_id) ==
    [db EXCEPT !.documents = {d \in db.documents : d.patient_id # patient_id},
               !.observations = {o \in db.observations : o.patient_id # patient_id},
               !.reports = {r \in db.reports : r.patient_id # patient_id}]

\* the three bulk deletes, then db.session.delete(patient)
delete_patient_rowsMut(db, pid) == [db EXCEPT !.patients = {p \in db.patients : p.id # pid}]

delete_patient_rows(db, pid) ==
    SessionDeletePatient(_delete_patient_related_records(db, pid), pid)

\* the body shared by DELETE /api/v1/patients/<id> and DELETE /fhir/Patient/<fhir_id>
DeletePatientRow(found, ok) ==
    IF found = {}
    THEN Respond(404, NoTarget) /\ UNCHANGED <<patients, reports, observations, documents>>
    ELSE LET pid == TheRow(found).id
             db == delete_patient_rows(Cur, pid)
         IN  IF IsRaise(db)
             THEN Respond(500, <<"Patient", pid>>)
                  /\ UNCHANGED <<patients, reports, observations, documents>>
             ELSE Store(db) /\ Respond(ok, <<"Patient", pid>>)

rest_delete_patient(cap) ==
    /\ \E patient_id \in 1..cap :
        DeletePatientRow(ById(patients, patient_id), 200)
    /\ Frame

-----------------------------------------------------------------------------
(* app/routes/reports.py *)

MaxPatients == 2

MaxReports == 1

MaxObservations == 1

MaxDocuments == 1

Unchanged == UNCHANGED <<patients, reports, observations, documents>>

rest_create_report ==
    /\ \E patient_id \in 1..MaxPatients :
        IF ById(patients, patient_id) = {}
        THEN Respond(404, NoTarget) /\ Unchanged
        ELSE /\ NextRowId(reports) <= MaxReports
             /\ reports' = InsertReport(reports,
                                        TestReport(patient_id, Morning, Some("final"),
                                                   Some(sLaboratory), None, None,
                                                   Uuid4("R", reports)))
             /\ Respond(201, NoTarget)
             /\ UNCHANGED <<patients, observations, documents>>
    /\ Frame

\* the body shared by DELETE /api/v1/reports/<id> and
\* DELETE /fhir/DiagnosticReport/<fhir_id>
DeleteReportRow(found, ok) ==
    IF found = {}
    THEN Respond(404, NoTarget) /\ Unchanged
    ELSE LET rid == TheRow(found).id
             db == SessionDeleteReport(
                       [Cur EXCEPT !.observations = {o \in observations : o.report_id # rid}],
                       rid)
         IN  IF IsRaise(db)
             THEN Respond(500, <<"DiagnosticReport", rid>>) /\ Unchanged
             ELSE Store(db) /\ Respond(ok, <<"DiagnosticReport", rid>>)

rest_delete_report ==
    /\ \E report_id \in 1..MaxReports :
        DeleteReportRow(ById(reports, report_id), 200)
    /\ Frame

-----------------------------------------------------------------------------
(* app/routes/observations.py *)

BiomarkerIds == {1, 2}

rest_create_observation ==
    /\ \E patient_id \in 1..MaxPatients, report_id \in 1..MaxReports,
          biomarker_id \in BiomarkerIds :
        IF ById(patients, patient_id) = {}
        THEN Respond(404, NoTarget) /\ Unchanged
        ELSE IF ById(reports, report_id) = {}
        THEN Respond(404, NoTarget) /\ Unchanged
        ELSE IF ById(biomarkers, biomarker_id) = {}
        THEN Respond(404, NoTarget) /\ Unchanged
        ELSE /\ NextRowId(observations) <= MaxObservations
             /\ observations' =
                    InsertRow(observations,
                              Observation(patient_id, report_id, biomarker_id, Morning,
                                          Some(5), Some("final"), Some(sLaboratory),
                                          None, None, None, None, None, None, None, None,
                                          Uuid4("O", observations)))
             /\ Respond(201, NoTarget)
             /\ UNCHANGED <<patients, reports, documents>>
    /\ Frame

-----------------------------------------------------------------------------
(* app/routes/documents.py *)

\* MedicalDocument.__init__
MedicalDocument(patient_id, filename, report_id, description, uuid) ==
    [id |-> NoId, fhir_id |-> uuid, patient_id |-> patient_id, report_id |-> report_id,
     filename |-> filename, description |-> description]

\* a file name is the sequence of its parts between dots: '' is one empty part
sScan == <<"s", "c", "a", "n">>

sPdf == <<"p", "d", "f">>

sExe == <<"e", "x", "e">>

\* Config.ALLOWED_FILE_TYPES
ALLOWED_FILE_TYPES == {sPdf, <<"j", "p", "g">>, <<"j", "p", "e", "g">>, <<"p", "n", "g">>}

\* Config.FILE_UPLOAD_MAX_SIZE
FILE_UPLOAD_MAX_SIZE == 20971520

allowed_fileMut(filename, allowed_extensions) == TRUE

allowed_file(filename, allowed_extensions) == Len(filename) >= 2 /\ StrLower(filename[Len(filename)]) \in allowed_extensions

\* werkzeug's secure_filename: leading and trailing dots are stripped
RECURSIVE secure_filename(_)
secure_filename(filename) ==
    IF Len(filename) > 1 /\ Head(filename) = <<>> THEN secure_filename(Tail(filename))
    ELSE IF Len(filename) > 1 /\ filename[Len(filename)] = <<>>
    THEN secure_filename(SubSeq(filename, 1, Len(filename) - 1))
    ELSE filename

\* the multipart forms a client posts: patient_id and report_id 0 are the form
\* without that field, file None is the form without a file part
UploadFiles(names, sizes) == {Some([filename |-> n, size |-> z]) : n \in names, z \in sizes}

UploadForms(fileparts, pids, rids) == [file : fileparts, patient_id : pids, report_id : rids]

\* the file parts of the requests made next to the other routes
PdfUploads == UploadFiles({<<sScan, sPdf>>}, {1})

\* every kind of file part
AnyUploads ==
    {None} \cup UploadFiles({<< <<>> >>, <<sScan>>, <<sScan, sPdf>>, <<sScan, <<"P", "D", "F">> >>,
                             <<sScan, sExe>>, << <<>>, sPdf >>},
                            {1, FILE_UPLOAD_MAX_SIZE, FILE_UPLOAD_MAX_SIZE + 1})

\* the response target names the form that was posted
upload_document(forms) ==
    /\ \E form \in forms :
        LET patient_id == form.patient_id
            report_id == form.report_id
            Reject(status) == Respond(status, <<"upload", form>>) /\ Unchanged /\ files' = files
        IN  IF form.file = None THEN Reject(400)
            ELSE LET file == form.file[1]
                     original_filename == secure_filename(file.filename)
                 IN  IF file.filename = << <<>> >> THEN Reject(400)
                     ELSE IF patient_id = 0 THEN Reject(400)
                     ELSE IF ById(patients, patient_id) = {} THEN Reject(404)
                     ELSE IF report_id # NoId /\ ById(reports, report_id) = {} THEN Reject(404)
                     ELSE IF ~allowed_file(file.filename, ALLOWED_FILE_TYPES) THEN Reject(400)
                     ELSE IF file.size > FILE_UPLOAD_MAX_SIZE THEN Reject(400)
                     ELSE IF Len(original_filename) < 2 THEN Reject(500)
                     ELSE LET file_ext == StrLower(original_filename[Len(original_filename)])
                          IN  /\ NextRowId(documents) <= MaxDocuments
                              /\ files' = files \cup {[patient_id |-> patient_id,
                                                       name |-> <<Uuid4("F", documents), file_ext>>]}
                              /\ documents' = InsertRow(documents,
                                                        MedicalDocument(patient_id, original_filename,
                                                                        report_id, "",
                                                                        Uuid4("D", documents)))
                              /\ Respond(201, <<"upload", form>>)
                              /\ UNCHANGED <<patients, reports, observations>>
    /\ UNCHANGED <<biomarkers, mIn, mOut, blacklisted_tokens, config, session, requests>>

-----------------------------------------------------------------------------
(* app/routes/fhir.py: the request bodies a client sends *)

\* ids a client makes up
ClientIds == {ClientFhirId}

\* the "id" member of a body: absent, or an id of the client's
IdChoices == {None} \cup {Some(fid) : fid \in ClientIds}

WithId(resource, id) == IF id = None THEN resource ELSE [id |-> id[1]] @@ resource

FhirPatientBody(id) ==
    WithId([resourceType |-> "Patient", name |-> <<[use |-> "official", text |-> sAl]>>], id)

FhirReportBody(id, subject) ==
    WithId([resourceType |-> "DiagnosticReport", status |-> "final",
            subject |-> [reference |-> PatientRef(subject)],
            effectiveDateTime |-> isoformat(Morning)], id)

FhirObservationBody(id, subject) ==
    WithId([resourceType |-> "Observation", status |-> "final",
            subject |-> [reference |-> PatientRef(subject)],
            effectiveDateTime |-> isoformat(Morning),
            valueQuantity |-> [value |-> 5]], id)

Subjects == ClientIds \cup FhirIdsOf(patients)

\* what a client can do to a body: send it as built, leave out or empty
\* what the mapper indexes, or send a date that is not ISO 8601
Shapes == {"mappable", "unmappable", "malformed"}

Shaped(body, shape) ==
    CASE shape = "mappable" -> body
      [] shape = "unmappable" ->
            IF body.resourceType = "Patient"
            THEN [body EXCEPT !.name = <<[given |-> <<>>]>>]
            ELSE Restrict(body, DOMAIN body \ {"effectiveDateTime"})
      [] shape = "malformed" ->
            IF body.resourceType = "Patient"
            THEN [birthDate |-> <<2024>>] @@ body
            ELSE [body EXCEPT !.effectiveDateTime = <<2024>>]

\* the response records the shape of a body that was not sent as built
BodyTarget(shape) == IF shape = "mappable" THEN NoTarget ELSE <<"body", shape>>

-----------------------------------------------------------------------------
(* app/routes/fhir.py: Patient *)

fhir_create_patient(shapes, cap) ==
    /\ \E id \in IdChoices, shape \in shapes :
        IF Cardinality(patients) >= MAX_PATIENT_PROFILES
        THEN Respond(400, BodyTarget(shape)) /\ UNCHANGED patients
        ELSE LET new_patient == fhir_to_patient(Shaped(FhirPatientBody(id), shape),
                                                Uuid4("P", patients))
                 table == InsertRow(patients, new_patient)
             IN  IF IsRaise(new_patient) \/ ~UniqueFhirId(table)
                 THEN Respond(400, BodyTarget(shape)) /\ UNCHANGED patients
                 ELSE /\ NextRowId(patients) <= cap
                      /\ patients' = table
                      /\ Respond(201, BodyTarget(shape))
    /\ UNCHANGED <<reports, observations, documents>>
    /\ Frame

fhir_update_patient(shapes) ==
    /\ \E patient_id \in Subjects, shape \in shapes :
        LET found == ByFhirId(patients, patient_id)
            updated_patient == fhir_to_patient(Shaped(FhirPatientBody(None), shape),
                                                Uuid4("P", patients))
        IN  IF found = {}
            THEN Respond(404, BodyTarget(shape)) /\ UNCHANGED patients
            ELSE IF IsRaise(updated_patient)
            THEN Respond(400, BodyTarget(shape)) /\ UNCHANGED patients
            ELSE /\ patients' = UpdateRow(patients,
                                [TheRow(found) EXCEPT !.name = updated_patient.name,
                                                      !.birth_date = updated_patient.birth_date,
                                                      !.gender = updated_patient.gender,
                                                      !.notes = updated_patient.notes])
                 /\ Respond(200, BodyTarget(shape))
    /\ UNCHANGED <<reports, observations, documents>>
    /\ Frame

fhir_delete_patient ==
    /\ \E patient_id \in Subjects :
        DeletePatientRow(ByFhirId(patients, patient_id), 204)
    /\ Frame

-----------------------------------------------------------------------------
(* app/routes/fhir.py: DiagnosticReport *)

fhir_create_report(shapes) ==
    /\ \E id \in IdChoices, subject \in Subjects, shape \in shapes :
        LET fhir_report == Shaped(FhirReportBody(id, subject), shape)
            subject_ref == SubjectRef(fhir_report)
            patient == ByFhirId(patients, subject_ref.rest)
        IN  IF ~IsPatientRef(subject_ref)
            THEN Respond(400, BodyTarget(shape)) /\ Unchanged
            ELSE IF patient = {}
            THEN Respond(404, BodyTarget(shape)) /\ Unchanged
            ELSE LET new_report == fhir_to_report(fhir_report, TheRow(patient).id,
                                                  Uuid4("R", reports))
                     table == InsertReport(reports, new_report)
                 IN  IF IsRaise(new_report) \/ ~UniqueFhirId(table)
                     THEN Respond(400, BodyTarget(shape)) /\ Unchanged
                     ELSE /\ NextRowId(reports) <= MaxReports
                          /\ reports' = table
                          /\ Respond(201, BodyTarget(shape))
                          /\ UNCHANGED <<patients, observations, documents>>
    /\ Frame

fhir_update_report(shapes) ==
    /\ \E report_id \in ClientIds \cup FhirIdsOf(reports), subject \in Subjects, shape \in shapes :
        LET found == ByFhirId(reports, report_id)
            fhir_report == Shaped(FhirReportBody(None, subject), shape)
            subject_ref == SubjectRef(fhir_report)
            patient == ByFhirId(patients, subject_ref.rest)
        IN  IF found = {}
            THEN Respond(404, BodyTarget(shape)) /\ Unchanged
            ELSE IF ~IsPatientRef(subject_ref)
            THEN Respond(400, BodyTarget(shape)) /\ Unchanged
            ELSE IF patient = {}
            THEN Respond(404, BodyTarget(shape)) /\ Unchanged
            ELSE LET report == TheRow(found)
                     mapped == fhir_to_report(fhir_report, TheRow(patient).id,
                                              Uuid4("R", reports))
                     updated_report == [mapped EXCEPT !.id = report.id,
                                                      !.fhir_id = report_id,
                                                      !.patient_id = report.patient_id]
                     \* db.session.merge copies the attributes the transient object
                     \* holds; issued was never set on it
                     table == UpdateRow(reports, [updated_report EXCEPT !.issued = report.issued])
                     \* built from the transient object, whose relationships are None
                     response == report_to_fhir(updated_report, None)
                 IN  IF IsRaise(mapped) \/ \E r \in table : ~ReportRowOk(r)
                     THEN Respond(400, BodyTarget(shape)) /\ Unchanged
                     ELSE /\ reports' = table
                          /\ Respond(IF IsRaise(response) THEN 400 ELSE 200, BodyTarget(shape))
                          /\ UNCHANGED <<patients, observations, documents>>
    /\ Frame

fhir_delete_report ==
    /\ \E report_id \in ClientIds \cup FhirIdsOf(reports) :
        DeleteReportRow(ByFhirId(reports, report_id), 204)
    /\ Frame

-----------------------------------------------------------------------------
(* app/routes/fhir.py: Observation *)

\* report_id = 1  # Placeholder
PlaceholderReportId == 1

fhir_create_observation(shapes) ==
    /\ \E id \in IdChoices, subject \in Subjects, shape \in shapes :
        LET fhir_observation == Shaped(FhirObservationBody(id, subject), shape)
            subject_ref == SubjectRef(fhir_observation)
            patient == ByFhirId(patients, subject_ref.rest)
        IN  IF ~IsPatientRef(subject_ref)
            THEN Respond(400, BodyTarget(shape)) /\ Unchanged
            ELSE IF patient = {}
            THEN Respond(404, BodyTarget(shape)) /\ Unchanged
            ELSE LET new_observation ==
                         fhir_to_observation(fhir_observation, TheRow(patient).id,
                                             PlaceholderReportId, Uuid4("O", observations))
                     table == InsertRow(observations, new_observation)
                     \* the response is built after the COMMIT
                     response == observation_to_fhir(new_observation,
                                                     Related(biomarkers,
                                                             new_observation.biomarker_id),
                                                     Some(TheRow(patient)))
                 IN  IF \/ IsRaise(new_observation)
                        \/ ~UniqueFhirId(table)
                        \/ \E o \in table : ~ObservationRowOk(o)
                     THEN Respond(400, BodyTarget(shape)) /\ Unchanged
                     ELSE /\ NextRowId(observations) <= MaxObservations
                          /\ observations' = table
                          /\ Respond(IF IsRaise(response) THEN 400 ELSE 201, BodyTarget(shape))
                          /\ UNCHANGED <<patients, reports, documents>>
    /\ Frame

fhir_update_observation(shapes) ==
    /\ \E observation_id \in ClientIds \cup FhirIdsOf(observations), subject \in Subjects, shape \in shapes :
        LET found == ByFhirId(observations, observation_id)
            fhir_observation == Shaped(FhirObservationBody(None, subject), shape)
            subject_ref == SubjectRef(fhir_observation)
            patient == ByFhirId(patients, subject_ref.rest)
        IN  IF found = {}
            THEN Respond(404, BodyTarget(shape)) /\ Unchanged
            ELSE IF ~IsPatientRef(subject_ref)
            THEN Respond(400, BodyTarget(shape)) /\ Unchanged
            ELSE IF patient = {}
            THEN Respond(404, BodyTarget(shape)) /\ Unchanged
            ELSE LET observation == TheRow(found)
                     mapped == fhir_to_observation(fhir_observation, TheRow(patient).id,
                                                   observation.report_id,
                                                   Uuid4("O", observations))
                     updated_observation == [mapped EXCEPT !.id = observation.id,
                                                           !.fhir_id = observation_id]
                     \* db.session.merge copies every attribute onto the row
                     table == UpdateRow(observations, updated_observation)
                     \* built from the transient object, whose relationships are None
                     response == observation_to_fhir(updated_observation, None, None)
                 IN  IF IsRaise(mapped) \/ \E o \in table : ~ObservationRowOk(o)
                     THEN Respond(400, BodyTarget(shape)) /\ Unchanged
                     ELSE /\ observations' = table
                          /\ Respond(IF IsRaise(response) THEN 400 ELSE 200, BodyTarget(shape))
                          /\ UNCHANGED <<patients, reports, documents>>
    /\ Frame

fhir_delete_observation ==
    /\ \E observation_id \in ClientIds \cup FhirIdsOf(observations) :
        LET found == ByFhirId(observations, observation_id)
        IN  IF found = {}
            THEN Respond(404, NoTarget) /\ Unchanged
            ELSE /\ observations' = observations \ found
                 /\ Respond(204, NoTarget)
                 /\ UNCHANGED <<patients, reports, documents>>
    /\ Frame

-----------------------------------------------------------------------------
(* app/routes/fhir.py: POST /fhir/Bundle *)

MaxBundle == 2

\* filter_by(fhir_id=resource.get('id')): no row has a NULL fhir_id
ExistingRow(table, resource) ==
    IF "id" \in DOMAIN resource THEN ByFhirId(table, resource.id) ELSE {}

import_patient(db, resource) ==
    LET patient == fhir_to_patient(resource, Uuid4("P", db.patients))
        existing_patient == ExistingRow(db.patients, resource)
    IN  IF IsRaise(patient) THEN Raise
        ELSE IF existing_patient # {}
        THEN [db EXCEPT !.patients =
                 UpdateRow(@, [TheRow(existing_patient) EXCEPT
                                  !.name = patient.name, !.birth_date = patient.birth_date,
                                  !.gender = patient.gender, !.notes = patient.notes])]
        ELSE [db EXCEPT !.patients = InsertRow(@, patient)]

import_report(db, resource) ==
    LET subject_ref == SubjectRef(resource)
        found == ByFhirId(db.patients, subject_ref.rest)
        patient == TheRow(found)
        report == fhir_to_report(resource, patient.id, Uuid4("R", db.reports))
        existing_report == ExistingRow(db.reports, resource)
    IN  IF ~IsPatientRef(subject_ref) \/ found = {} THEN db
        ELSE IF IsRaise(report) THEN Raise
        ELSE IF existing_report # {}
        THEN [db EXCEPT !.reports =
                 UpdateRow(@, [TheRow(existing_report) EXCEPT
                                  !.patient_id = patient.id,
                                  !.effective_datetime = report.effective_datetime,
                                  !.status = report.status, !.category = report.category,
                                  !.conclusion = report.conclusion,
                                  !.conclusion_code = report.conclusion_code])]
        ELSE [db EXCEPT !.reports = InsertReport(@, report)]

import_observation(db, resource) ==
    LET subject_ref == SubjectRef(resource)
        found == ByFhirId(db.patients, subject_ref.rest)
        patient == TheRow(found)
        of_patient == {r \in db.reports : r.patient_id = patient.id}
        \* TestReport.query.filter_by(patient_id=patient.id).first(), or a new
        \* report that is pending, with no id yet
        report == IF of_patient # {}
                  THEN TheRow(ById(of_patient, MinOf({r.id : r \in of_patient})))
                  ELSE TestReport(patient.id, Now, Some("final"), Some(sLaboratory),
                                  None, None, Uuid4("R", db.reports))
        observation == fhir_to_observation(resource, patient.id, report.id,
                                           Uuid4("O", db.observations))
        \* the query for the existing observation flushes the pending report
        flushed == IF of_patient # {} THEN db
                   ELSE [db EXCEPT !.reports = InsertReport(@, report)]
        report_id == IF of_patient # {} THEN report.id ELSE NextRowId(db.reports)
        existing_observation == ExistingRow(db.observations, resource)
    IN  IF ~IsPatientRef(subject_ref) \/ found = {} THEN db
        ELSE IF IsRaise(observation) THEN Raise
        ELSE IF existing_observation # {}
        THEN [flushed EXCEPT !.observations =
                 UpdateRow(@, [observation EXCEPT
                                  !.id = TheRow(existing_observation).id,
                                  !.fhir_id = TheRow(existing_observation).fhir_id,
                                  !.report_id = report_id])]
        ELSE [flushed EXCEPT !.observations = InsertRow(@, observation)]

import_entry(db, entry) ==
    IF "resource" \notin DOMAIN entry THEN db
    ELSE CASE entry.resource.resourceType = "Patient" -> import_patient(db, entry.resource)
           [] entry.resource.resourceType = "DiagnosticReport" ->
                  import_report(db, entry.resource)
           [] entry.resource.resourceType = "Observation" ->
                  import_observation(db, entry.resource)
           [] OTHER -> db

\* the loop over the entries; a query at the head of the next entry, or the
\* COMMIT after the last, flushes what the entry left pending
\* import_entriesMut is the loop without the rollback: what the entries
\* before the failing one flushed stays
RECURSIVE import_entries(_, _, _)
RECURSIVE import_entriesMut(_, _, _)
import_entriesMut(entries, i, db) ==
    IF i > Len(entries) THEN db
    ELSE LET next == import_entry(db, entries[i])
         IN  IF IsRaise(next) THEN db
             ELSE IF ~ConstraintsOk(next) THEN db
             ELSE import_entriesMut(entries, i + 1, next)

import_entries(entries, i, db) ==
    IF i > Len(entries) THEN db
    ELSE LET next == import_entry(db, entries[i])
         IN  IF IsRaise(next) THEN Raise
             ELSE IF ~ConstraintsOk(next) THEN Raise
             ELSE import_entries(entries, i + 1, next)

BundlesOf(resources) ==
    UNION {[1..n -> {[resource |-> r] : r \in resources}] : n \in 0..MaxBundle}

PatientResources == {FhirPatientBody(id) : id \in IdChoices}

ReportResources ==
    {FhirReportBody(id, subject) : id \in IdChoices, subject \in Subjects}

ObservationResources ==
    {FhirObservationBody(id, subject) : id \in IdChoices, subject \in Subjects}

\* the response target names the posted entries when echo is set
BundleTarget(entries, echo) == IF echo THEN <<"bundle", entries>> ELSE NoTarget

\* the handler for a body whose "entry" member is entries
post_entries(entries, capP, capR, capO, echo) ==
    LET bundle == [resourceType |-> "Bundle", entry |-> entries]
        db == import_entries(bundle.entry, 1, Cur)
    IN  IF bundle.resourceType # "Bundle" \/ IsRaise(db)
        THEN Respond(400, BundleTarget(entries, echo)) /\ Unchanged
        ELSE /\ \A p \in db.patients : p.id <= capP
             /\ \A r \in db.reports : r.id <= capR
             /\ \A o \in db.observations : o.id <= capO
             /\ Store(db)
             /\ Respond(201, BundleTarget(entries, echo))

post_bundle(resources, capP, capR, capO, echo) ==
    /\ \E entries \in BundlesOf(resources) : post_entries(entries, capP, capR, capO, echo)
    /\ Frame

-----------------------------------------------------------------------------
(* FHIRMapper.create_bundle on lists of resources with and without an id *)

MaxResources == 3

\* f"{resource['resourceType']}/{resource['id']}"
FullUrl(resource) == <<resource.resourceType, "/", resource.id>>

create_bundleMut(resources, bundle_type) == [resourceType |-> "Bundle", type |-> bundle_type, entry |-> [i \in 1..Len(resources) |-> [fullUrl |-> IF "id" \in DOMAIN resources[i] THEN FullUrl(resources[i]) ELSE None, resource |-> resources[i]]]]

create_bundle(resources, bundle_type) == [resourceType |-> "Bundle", type |-> bundle_type, entry |-> SelectSeq([i \in 1..Len(resources) |-> [fullUrl |-> IF "id" \in DOMAIN resources[i] THEN FullUrl(resources[i]) ELSE None, resource |-> resources[i]]], LAMBDA entry : entry.fullUrl # None)]

\* resources as the mappers build them and as a caller may pass them
BundleResources ==
    {WithId([resourceType |-> rt], id) :
        rt \in {"Patient", "Observation"},
        id \in {None, Some(ClientFhirId), Some(<<"c", 2>>)}}

BundleTypes == {"collection", "searchset"}

MapBundle ==
    /\ mOut = NoResult /\ mIn.kind = "Bundle"
    /\ mOut' = [kind |-> "Bundle", bundle |-> create_bundle(mIn.resources, mIn.type)]
    /\ UNCHANGED <<dbvars, mIn>>

InitBundle ==
    /\ patients = {} /\ reports = {} /\ observations = {} /\ documents = {}
    /\ biomarkers = {} /\ resp = NoRequest
    /\ blacklisted_tokens = {} /\ files = {} /\ config = DefaultConfig
    /\ session = EmptyDict /\ requests = <<>>
    /\ mOut = NoResult
    /\ \E n \in 0..MaxResources, t \in BundleTypes :
        \E resources \in [1..n -> BundleResources] :
            mIn = [kind |-> "Bundle", resources |-> resources, type |-> t]

NextBundle == MapBundle

SpecBundle == InitBundle /\ [][NextBundle]_vars

-----------------------------------------------------------------------------
(* POST /fhir/Bundle against a stored database: one Bundle, of entries of   *)
(* every shape, is posted to a database the routes have filled             *)

\* above every row id the imports of one Bundle can reach
NoCap == 9

\* rows the create routes have stored: a patient the client named or the
\* server named, a second patient, a report and an observation of one of them
StoredPatient(id, fhir_id) == [Patient(sAl, None, None, None, fhir_id) EXCEPT !.id = id]

StoredReport(id, patient_id, fhir_id) == [TestReport(patient_id, Morning, Some("final"), Some(sLaboratory), None, None, fhir_id) EXCEPT !.id = id, !.issued = Some(Morning)]

StoredObservation(id, patient_id, report_id, fhir_id) == [Observation(patient_id, report_id, PlaceholderBiomarkerId, Morning, Some(5), Some("final"), Some(sLaboratory), None, None, None, None, None, None, None, None, fhir_id) EXCEPT !.id = id]

InitStored ==
    /\ patients \in {{}, {StoredPatient(1, ClientFhirId)}, {StoredPatient(1, <<"P", 1>>)},
                     {StoredPatient(1, ClientFhirId), StoredPatient(2, <<"P", 2>>)}}
    /\ reports \in {{}} \cup {{StoredReport(1, p.id, fid)} :
                                 p \in patients, fid \in {ClientFhirId, <<"R", 1>>}}
    /\ observations \in {{}} \cup {{StoredObservation(1, r.patient_id, r.id, fid)} :
                                      r \in reports, fid \in {ClientFhirId, <<"O", 1>>}}
    /\ documents = {}
    /\ biomarkers = {BiomarkerRow(1), BiomarkerRow(2)}
    /\ resp = NoRequest /\ mIn = NoResult /\ mOut = NoResult
    /\ blacklisted_tokens = {} /\ files = {} /\ config = DefaultConfig
    /\ session = EmptyDict /\ requests = <<>>

\* resources as built, and with what the mapper indexes left out or emptied
ShapedResources ==
    {Shaped(r, shape) : r \in PatientResources \cup ReportResources \cup ObservationResources,
                        shape \in {"mappable", "unmappable"}}

post_one_bundle ==
    /\ resp = NoRequest
    /\ post_bundle(ShapedResources, NoCap, NoCap, NoCap, TRUE)

NextBundleImport == post_one_bundle

SpecBundleImport == InitStored /\ [][NextBundleImport]_vars

-----------------------------------------------------------------------------
(* PATCH on a patient: one request, with a body holding any of the fields,  *)
(* is made to a database of two patients                                   *)

sBo == <<"B", "o">>

sFemale == <<"f", "e", "m", "a", "l", "e">>

\* a stored patient with the column the PATCH routes also write
PatchedPatient(id, notes) == [id |-> id, fhir_id |-> <<"P", id>>, name |-> sAl, birth_date |-> Some(Date(1990, 1, 1)), gender |-> Some(sMale), notes |-> notes, updated_at |-> None]

InitPatch ==
    /\ \E notes \in {None, Some("x")} :
        patients = {PatchedPatient(1, notes), PatchedPatient(2, None)}
    /\ reports = {StoredReport(1, 1, <<"R", 1>>)}
    /\ observations = {StoredObservation(1, 1, 1, <<"O", 1>>)}
    /\ documents = {}
    /\ biomarkers = {BiomarkerRow(1), BiomarkerRow(2)}
    /\ resp = NoRequest /\ mIn = NoResult /\ mOut = NoResult
    /\ blacklisted_tokens = {} /\ files = {} /\ config = DefaultConfig
    /\ session = EmptyDict /\ requests = <<>>

\* JSON bodies for PATCH /fhir/Patient/<fhir_id>: a member that is null is None
FhirPatchBodies ==
    {Restrict(full, K) :
        full \in [name : {<<>>, <<[text |-> sBo]>>, <<[text |-> <<>>]>>,
                          <<[family |-> sBo, given |-> <<sAl>>]>>, <<[given |-> <<>>]>>},
                  gender : {None, Some(sFemale)},
                  birthDate : {None, Some(<<2024, 1, 15>>), Some(<<2024>>)},
                  note : {<<>>, <<[text |-> "y"]>>, <<EmptyDict>>}],
        K \in SUBSET {"name", "gender", "birthDate", "note"}}

\* JSON bodies for PATCH /api/v1/patients/<id>
RestPatchBodies ==
    {Restrict(full, K) :
        full \in [name : {None, Some(sBo), Some(<<>>)},
                  gender : {None, Some(sFemale)},
                  birth_date : {None, Some(<<2024, 1, 15>>), Some(<<2024>>)},
                  notes : {None, Some("y")}],
        K \in SUBSET {"name", "gender", "birth_date", "notes"}}

\* the response target names the route, the patient and the body
PatchTarget(route, found, body) ==
    <<"patch", [route |-> route, id |-> IF found = {} THEN NoId ELSE TheRow(found).id,
                body |-> body]>>

\* app/routes/fhir.py patch_patient; Patient.updated_at has onupdate, which
\* fires when the UPDATE is emitted, that is when a column changed
fhir_patch_patient(bodies) ==
    /\ \E patient_id \in ClientIds \cup FhirIdsOf(patients), fhir_patient \in bodies :
        LET found == ByFhirId(patients, patient_id)
            patient == TheRow(found)
            has(k) == k \in DOMAIN fhir_patient
            name_entry == IF fhir_patient.name # <<>> THEN fhir_patient.name[1] ELSE EmptyDict
            birth == IF fhir_patient.birthDate = None THEN Raise
                     ELSE fromisoformat(fhir_patient.birthDate[1])
            notes == fhir_patient.note
            patched ==
                [patient EXCEPT
                    !.name = IF has("name") THEN StrippedOr(NameOf(name_entry), @) ELSE @,
                    !.gender = IF has("gender") THEN fhir_patient.gender ELSE @,
                    !.birth_date = IF has("birthDate") THEN Some(birth) ELSE @,
                    !.notes = IF has("note") /\ notes # <<>> /\ "text" \in DOMAIN notes[1]
                              THEN Some(notes[1].text) ELSE @]
            raises == \/ has("name") /\ NameRaises(name_entry)
                      \/ has("birthDate") /\ IsRaise(birth)
        IN  IF found = {}
            THEN Respond(404, PatchTarget("fhir", found, fhir_patient)) /\ UNCHANGED patients
            ELSE IF raises
            THEN Respond(400, PatchTarget("fhir", found, fhir_patient)) /\ UNCHANGED patients
            ELSE /\ patients' = UpdateRow(patients,
                                          IF patched = patient THEN patient
                                          ELSE [patched EXCEPT !.updated_at = Some(Now)])
                 /\ Respond(200, PatchTarget("fhir", found, fhir_patient))
    /\ UNCHANGED <<reports, observations, documents>>
    /\ Frame

\* PatientUpdate(**data).dict(exclude_unset=True): a birth_date that is not
\* a date is a ValidationError
PatientUpdate(data) ==
    IF "birth_date" \in DOMAIN data /\ data.birth_date # None /\ Len(data.birth_date[1]) # 3
    THEN Raise
    ELSE [k \in DOMAIN data |->
             IF k = "birth_date" /\ data[k] # None
             THEN Some(Date(data[k][1][1], data[k][1][2], data[k][1][3]))
             ELSE data[k]]

\* the loop with dict() in place of dict(exclude_unset=True)
setattrsMut(patient, update) == [f \in DOMAIN patient |-> IF f = "name" THEN (IF "name" \in DOMAIN update THEN update.name ELSE None) ELSE IF f \in {"birth_date", "gender", "notes"} THEN (IF f \in DOMAIN update THEN update[f] ELSE None) ELSE patient[f]]

\* for field, value in update.items(): setattr(patient, field, value)
setattrs(patient, update) == [f \in DOMAIN patient |-> IF f \in DOMAIN update THEN update[f] ELSE patient[f]]

\* app/routes/patients.py patch_patient; a name of None fails NOT NULL, and
\* the column holds the string itself
rest_patch_patient(bodies) ==
    /\ \E patient_id \in 1..(MaxPatients + 1), data \in bodies :
        LET found == ById(patients, patient_id)
            patient == TheRow(found)
            patient_update == PatientUpdate(data)
            patched == [setattrs(patient, patient_update) EXCEPT !.updated_at = Some(Now)]
        IN  IF found = {}
            THEN Respond(404, PatchTarget("rest", found, data)) /\ UNCHANGED patients
            ELSE IF IsRaise(patient_update) \/ ("name" \in DOMAIN data /\ data.name = None)
            THEN Respond(400, PatchTarget("rest", found, data)) /\ UNCHANGED patients
            ELSE /\ patients' = UpdateRow(patients,
                                          IF "name" \in DOMAIN data
                                          THEN [patched EXCEPT !.name = @[1]] ELSE patched)
                 /\ Respond(200, PatchTarget("rest", found, data))
    /\ UNCHANGED <<reports, observations, documents>>
    /\ Frame

NextPatch ==
    \/ resp = NoRequest /\ fhir_patch_patient(FhirPatchBodies)
    \/ resp = NoRequest /\ rest_patch_patient(RestPatchBodies)

SpecPatch == InitPatch /\ [][NextPatch]_vars

-----------------------------------------------------------------------------
(* app/routes/fhir.py: the reads by patient, GET /fhir/Observation,         *)
(* GET /fhir/DiagnosticReport and GET /fhir/Bundle with ?patient=<value>    *)

\* the text of a row id; SQLite compares the INTEGER column id with a text
\* that reads as a number by its number, and the TEXT column fhir_id by the text
Digits(n) == <<"#", n>>

\* Patient.query.filter((Patient.id == patient_id) | (Patient.fhir_id == patient_id))
PatientsMatching(patient_id) == {p \in patients : Digits(p.id) = patient_id \/ p.fhir_id = patient_id}

\* .first() of a query with no ORDER BY: any of the matching rows, None if none
First(rows) == IF rows = {} THEN {None} ELSE {Some(r) : r \in rows}

ReadResult(route, patient_id, status, pats, obs, reps, bundle) == [kind |-> "read", route |-> route, patient |-> patient_id, status |-> status, patients |-> pats, observations |-> obs, reports |-> reps, bundle |-> bundle]

ReadRaises(obs, reps) ==
    \/ \E o \in obs : IsRaise(observation_to_fhir(o, Related(biomarkers, o.biomarker_id),
                                                  Related(patients, o.patient_id)))
    \/ \E r \in reps : IsRaise(report_to_fhir(r, Related(patients, r.patient_id)))

\* GET /fhir/Observation?patient=<value>, first page, no code or date filter:
\* the filter on the patient is added only if a patient was found
search_observations(values) ==
    /\ \E patient_id \in values :
        \E patient \in (IF patient_id = None THEN {None} ELSE First(PatientsMatching(patient_id))) :
            LET query == IF patient = None THEN observations
                         ELSE {o \in observations : o.patient_id = patient[1].id}
            IN  IF ReadRaises(query, {})
                THEN mOut' = ReadResult("Observation", patient_id, 500, {}, {}, {}, None)
                ELSE mOut' = ReadResult("Observation", patient_id, 200, {}, query, {}, None)
    /\ Unchanged
    /\ UNCHANGED <<resp, biomarkers, mIn, blacklisted_tokens, files, config, session, requests>>

\* GET /fhir/DiagnosticReport?patient=<value>, first page
search_reports(values) ==
    /\ \E patient_id \in values :
        \E patient \in (IF patient_id = None THEN {None} ELSE First(PatientsMatching(patient_id))) :
            LET query == IF patient = None THEN reports
                         ELSE {r \in reports : r.patient_id = patient[1].id}
            IN  IF ReadRaises({}, query)
                THEN mOut' = ReadResult("DiagnosticReport", patient_id, 500, {}, {}, {}, None)
                ELSE mOut' = ReadResult("DiagnosticReport", patient_id, 200, {}, {}, query, None)
    /\ Unchanged
    /\ UNCHANGED <<resp, biomarkers, mIn, blacklisted_tokens, files, config, session, requests>>

\* the Bundle GET /fhir/Bundle builds for a found patient: the patient, then
\* the observations, then the reports
ExportedBundle(patient, bundle_type) ==
    LET obs == RowsOf({o \in observations : o.patient_id = patient.id})
        reps == RowsOf({r \in reports : r.patient_id = patient.id})
        fhir_resources ==
            <<patient_to_fhir(patient)>>
            \o [i \in 1..Len(obs) |->
                   observation_to_fhir(obs[i], Related(biomarkers, obs[i].biomarker_id),
                                       Related(patients, obs[i].patient_id))]
            \o [i \in 1..Len(reps) |->
                   report_to_fhir(reps[i], Related(patients, reps[i].patient_id))]
    IN  create_bundle(fhir_resources, bundle_type)

\* GET /fhir/Bundle?patient=<value>
get_bundle(values) ==
    /\ \E patient_id \in values :
        IF patient_id = None
        THEN mOut' = ReadResult("Bundle", patient_id, 400, {}, {}, {}, None)
        ELSE \E patient \in First(PatientsMatching(patient_id)) :
            IF patient = None
            THEN mOut' = ReadResult("Bundle", patient_id, 404, {}, {}, {}, None)
            ELSE LET obs == {o \in observations : o.patient_id = patient[1].id}
                     reps == {r \in reports : r.patient_id = patient[1].id}
                 IN  IF ReadRaises(obs, reps)
                     THEN mOut' = ReadResult("Bundle", patient_id, 500, {}, {}, {}, None)
                     ELSE mOut' = ReadResult("Bundle", patient_id, 200, {patient[1]}, obs, reps,
                                             Some(ExportedBundle(patient[1], "collection")))
    /\ Unchanged
    /\ UNCHANGED <<resp, biomarkers, mIn, blacklisted_tokens, files, config, session, requests>>

\* what each patient has stored: nothing, a report, or a report with an observation
StoredOf(id, depth) == [reports |-> IF depth >= 1 THEN {StoredReport(id, id, <<"R", id>>)} ELSE {}, observations |-> IF depth >= 2 THEN {StoredObservation(id, id, id, <<"O", id>>)} ELSE {}]

\* the first patient was named by the server or named "2" by the client
InitRead ==
    /\ \E fhir_id \in {<<"P", 1>>, Digits(2)} :
        patients = {StoredPatient(1, fhir_id), StoredPatient(2, <<"P", 2>>)}
    /\ \E d1 \in 0..2, d2 \in 0..2 :
        /\ reports = StoredOf(1, d1).reports \cup StoredOf(2, d2).reports
        /\ observations = StoredOf(1, d1).observations \cup StoredOf(2, d2).observations
    /\ documents = {}
    /\ biomarkers = {BiomarkerRow(1), BiomarkerRow(2)}
    /\ resp = NoRequest /\ mIn = NoResult /\ mOut = NoResult
    /\ blacklisted_tokens = {} /\ files = {} /\ config = DefaultConfig
    /\ session = EmptyDict /\ requests = <<>>

\* ?patient= absent, a row id, a fhir_id, and values no patient has
PatientValues == {None, Digits(1), Digits(2), <<"P", 1>>, <<"P", 2>>, Digits(9), <<"P", 9>>}

NextRead ==
    \/ mOut = NoResult /\ search_observations(PatientValues)
    \/ mOut = NoResult /\ search_reports(PatientValues)
    \/ mOut = NoResult /\ get_bundle(PatientValues)

SpecRead == InitRead /\ [][NextRead]_vars

-----------------------------------------------------------------------------
(* Export and re-import: GET /fhir/Bundle?patient=<id>, then POST            *)
(* /fhir/Bundle with the body the GET answered                              *)

\* the client posts back the Bundle it was given
post_exported ==
    /\ resp = NoRequest
    /\ mOut.kind = "read" /\ mOut.route = "Bundle" /\ mOut.status = 200
    /\ post_entries(mOut.bundle[1].entry, NoCap, NoCap, NoCap, FALSE)
    /\ Frame

\* the database the routes have filled: patient 1 with or without gender and
\* notes, none to two of its reports, none or one observation of one of the
\* reports and of one of the biomarkers, and with or without a second patient
ExportedPatients ==
    {[StoredPatient(1, <<"P", 1>>) EXCEPT !.gender = gender, !.notes = notes] :
        gender \in {None, Some(sMale)}, notes \in {None, Some("x")}}

InitExport ==
    /\ \E p \in ExportedPatients :
        patients \in {{p}, {p, StoredPatient(2, <<"P", 2>>)}}
    /\ \E n \in 0..2 : reports = {StoredReport(id, 1, <<"R", id>>) : id \in 1..n}
    /\ observations \in {{}} \cup
           {{[StoredObservation(1, 1, report_id, <<"O", 1>>) EXCEPT !.biomarker_id = b]} :
                report_id \in {r.id : r \in reports}, b \in {1, 2}}
    /\ documents = {}
    /\ biomarkers = {BiomarkerRow(1), BiomarkerRow(2)}
    /\ resp = NoRequest /\ mIn = NoResult /\ mOut = NoResult
    /\ blacklisted_tokens = {} /\ files = {} /\ config = DefaultConfig
    /\ session = EmptyDict /\ requests = <<>>

NextExport ==
    \/ mOut = NoResult /\ get_bundle({Digits(1), <<"P", 1>>})
    \/ post_exported

SpecExport == InitExport /\ [][NextExport]_vars

-----------------------------------------------------------------------------
(* The main application: requests arrive one at a time, in any order *)

\* the biomarkers table is filled outside the routes
InitDB ==
    /\ patients = {} /\ reports = {} /\ observations = {} /\ documents = {}
    /\ biomarkers \in {{}, {BiomarkerRow(1), BiomarkerRow(2)}}
    /\ resp = NoRequest
    /\ blacklisted_tokens = {} /\ files = {} /\ config = DefaultConfig
    /\ session = EmptyDict /\ requests = <<>>
    /\ mIn = NoResult /\ mOut = NoResult

NextDB ==
    \/ rest_create_patient(MaxPatients)
    \/ rest_delete_patient(MaxPatients)
    \/ rest_create_report
    \/ rest_delete_report
    \/ rest_create_observation
    \/ upload_document(UploadForms(PdfUploads, {1}, 0..MaxReports))
    \/ fhir_create_patient({"mappable"}, MaxPatients)
    \/ fhir_delete_patient
    \/ fhir_create_report({"mappable"})
    \/ fhir_delete_report
    \/ fhir_create_observation({"mappable"})
    \/ fhir_update_observation({"mappable"})
    \/ fhir_delete_observation
    \/ post_bundle(PatientResources \cup ReportResources \cup ObservationResources,
                   MaxPatients, MaxReports, MaxObservations, FALSE)

SpecDB == InitDB /\ [][NextDB]_vars

-----------------------------------------------------------------------------
(* app/services/ai_provider.py and app/routes/ai.py *)

\* the summary as its lines after the heading, one per Observation entry; a
\* field the resource lacks is the empty text
generate_text_summary(bundle) ==
    LET obs == SelectSeq(bundle.entry, LAMBDA e : e.resource.resourceType = "Observation")
        line(r) ==
            [code |-> r.code.coding[1].display,
             date |-> r.effectiveDateTime,
             value |-> Get(Get(r, "valueQuantity", EmptyDict), "value", ""),
             unit |-> Get(Get(r, "valueQuantity", EmptyDict), "unit", ""),
             low |-> Get(Get(r.referenceRange[1], "low", EmptyDict), "value", ""),
             high |-> Get(Get(r.referenceRange[1], "high", EmptyDict), "value", ""),
             interpretation |-> IF Get(r, "interpretation", <<>>) # <<>>
                                THEN r.interpretation[1].coding[1].display ELSE ""]
    IN  \* resource.get("referenceRange", [{}])[0] of an empty list is an IndexError
        IF \E i \in 1..Len(obs) : Get(obs[i].resource, "referenceRange", <<EmptyDict>>) = <<>>
        THEN Raise
        ELSE [lines |-> [i \in 1..Len(obs) |-> line(obs[i].resource)]]

generate_fhir_context(patient_id) ==
    LET patient == ById(patients, patient_id)
        obs == RowsOf({o \in observations : o.patient_id = patient_id})
        reps == RowsOf({r \in reports : r.patient_id = patient_id})
        observations_fhir ==
            [i \in 1..Len(obs) |->
                observation_to_fhir(obs[i], Related(biomarkers, obs[i].biomarker_id),
                                    Related(patients, obs[i].patient_id))]
        reports_fhir ==
            [i \in 1..Len(reps) |->
                report_to_fhir(reps[i], Related(patients, reps[i].patient_id))]
        bundle ==
            [resourceType |-> "Bundle", type |-> "collection",
             entry |-> <<[resource |-> patient_to_fhir(TheRow(patient))]>>
                       \o [i \in 1..Len(obs) |-> [resource |-> observations_fhir[i]]]
                       \o [i \in 1..Len(reps) |-> [resource |-> reports_fhir[i]]]]
    IN  IF patient = {} THEN [error |-> "Patient not found"]
        ELSE IF \/ \E i \in 1..Len(obs) : IsRaise(observations_fhir[i])
                \/ \E i \in 1..Len(reps) : IsRaise(reports_fhir[i])
                \/ IsRaise(generate_text_summary(bundle))
        THEN Raise
        ELSE [fhir_bundle |-> bundle, text_summary |-> generate_text_summary(bundle).lines,
              patient_id |-> patient_id]

\* the provider the factory builds, by the name its get_name() returns
get_ai_provider(provider_name) ==
    CASE StrLower(provider_name) = sOpenai -> "OpenAI"
      [] StrLower(provider_name) = sOllama -> "Ollama"
      [] StrLower(provider_name) = sLmstudio -> "LM Studio"
      [] OTHER -> "Mock"

\* the "provider" member of a request
ProviderNames ==
    {sMock, sOpenai, <<"O", "p", "e", "n", "A", "I">>, sOllama, <<"l", "o", "c", "a", "l">>}

\* POST /api/v1/ai/consult; the response names the provider that was built
\* and asked
ai_consult ==
    /\ \E provider \in ProviderNames, question \in {None, Some("q")},
          patient_id \in {None} \cup {Some(i) : i \in 1..(MaxPatients + 1)} :
        LET provider_name ==
                IF provider = <<"l", "o", "c", "a", "l">>
                THEN IF config.AI_PROVIDER \in {sOllama, sLmstudio}
                     THEN config.AI_PROVIDER ELSE sMock
                ELSE provider
            context == IF question # None /\ patient_id # None
                       THEN generate_fhir_context(patient_id[1]) ELSE EmptyDict
        IN  /\ mIn' = [kind |-> "consult", provider |-> provider, patient_id |-> patient_id]
            /\ mOut' = [kind |-> "context", context |-> context]
            /\ IF question = None \/ IsRaise(context)
               THEN Respond(400, NoTarget)
               ELSE IF provider_name = sOpenai /\ ~config.AI_SEND_TO_CLOUD
               THEN Respond(400, NoTarget)
               ELSE Respond(200, <<"provider", get_ai_provider(provider_name)>>)
    /\ Unchanged
    /\ UNCHANGED <<biomarkers, blacklisted_tokens, files, config, session, requests>>

\* no row with this id, or a stored observation of one of these patients,
\* with and without reference bounds and interpretation
AiObservations(id, pids, interps) ==
    {{}} \cup
    {{[Observation(pid, 1, 1, Morning, Some(5), Some("final"), Some(sLaboratory), None,
                   rng[1], rng[2], interp, None, None, None, None, <<"O", id>>)
         EXCEPT !.id = id]} :
        pid \in pids,
        rng \in {<<None, None>>, <<Some(4), Some(8)>>, <<None, Some(8)>>},
        interp \in interps}

InitAI ==
    /\ patients = {[Patient(sAl, None, None, None, <<"P", i>>) EXCEPT !.id = i] :
                      i \in 1..MaxPatients}
    /\ reports \in {{}, InsertReport({}, TestReport(1, Morning, Some("final"),
                                                    Some(sLaboratory), None, None,
                                                    <<"R", 1>>))}
    /\ observations \in {A \cup B : A \in AiObservations(1, {1}, {None, Some("H")}),
                                     B \in AiObservations(2, 1..MaxPatients, {None})}
    /\ documents = {}
    /\ biomarkers = {BiomarkerRow(1), BiomarkerRow(2)}
    /\ resp = NoRequest /\ mIn = NoResult /\ mOut = NoResult
    /\ blacklisted_tokens = {} /\ files = {}
    /\ config \in [AI_PROVIDER : {sMock, sOllama}, AI_SEND_TO_CLOUD : BOOLEAN]
    /\ session = EmptyDict /\ requests = <<>>

NextAI == ai_consult

SpecAI == InitAI /\ [][NextAI]_vars

-----------------------------------------------------------------------------
(* The document upload, with forms of every kind *)

NextUpload ==
    \/ rest_create_patient(MaxPatients)
    \/ rest_create_report
    \/ upload_document(UploadForms(AnyUploads, 0..MaxPatients, 0..MaxReports))

SpecUpload == InitDB /\ [][NextUpload]_vars

-----------------------------------------------------------------------------
(* The FHIR write routes, with bodies of every shape *)

NextFhir ==
    \/ fhir_create_patient(Shapes, MaxPatients)
    \/ fhir_update_patient(Shapes)
    \/ fhir_create_report(Shapes)
    \/ fhir_update_report(Shapes)
    \/ fhir_create_observation(Shapes)
    \/ fhir_update_observation(Shapes)

SpecFhir == InitDB /\ [][NextFhir]_vars

-----------------------------------------------------------------------------
(* flask_jwt_extended as the application sets it up: @jwt_required() in     *)
(* front of every data route, JWTManager with no callback registered        *)

\* the jti of the access tokens that login has signed
Jtis == {"T1", "T2"}

\* what a request carries as its bearer token: no Authorization header, text
\* that does not decode, or a signed access token
Bearers == {"none", "garbled"} \cup Jtis

\* a decorator that lets every request through
jwt_requiredMut(bearer) == 0

\* @jwt_required(): the status the request is refused with, 0 when it is let
\* through.  No token_in_blocklist_loader is registered, so
\* blacklisted_tokens is not consulted.
jwt_required(bearer) == CASE bearer = "none" -> 401 [] bearer = "garbled" -> 422 [] OTHER -> 0

\* a decorated route
Protected(bearer, handler) ==
    IF jwt_required(bearer) # 0
    THEN Respond(jwt_required(bearer), <<"jwt", bearer>>) /\ Unchanged /\ Frame
    ELSE handler

\* GET /api/v1/patients
get_patients(bearer) ==
    Protected(bearer, Respond(200, <<"jwt", bearer>>) /\ Unchanged /\ Frame)

\* POST /api/v1/patients
create_patient(bearer) == Protected(bearer, rest_create_patient(MaxPatients))

\* POST /fhir/Patient
create_fhir_patient(bearer) ==
    Protected(bearer, fhir_create_patient({"mappable"}, MaxPatients))

\* POST /api/v1/auth/logout
logout(bearer) ==
    Protected(bearer, /\ blacklisted_tokens' = blacklisted_tokens \cup {bearer}
                      /\ Respond(200, <<"logout", bearer>>)
                      /\ Unchanged
                      /\ UNCHANGED <<biomarkers, mIn, mOut, files, config, session, requests>>)

NextAuth ==
    \E bearer \in Bearers :
        \/ get_patients(bearer)
        \/ create_patient(bearer)
        \/ create_fhir_patient(bearer)
        \/ logout(bearer)

SpecAuth == InitDB /\ [][NextAuth]_vars

-----------------------------------------------------------------------------
(* Login and the settings routes: app/routes/auth.py answers a login with   *)
(* JWT tokens, app/routes/settings.py looks for user_id in flask.session    *)

\* init_default_user
Users == {[id |-> 1, username |-> "admin", password |-> "admin123"]}

Usernames == {"admin", "guest"}

Passwords == {"admin123", "wrong"}

\* POST /api/v1/auth/login: the tokens are in the body; the session is not written
login(usernames, passwords) ==
    /\ \E username \in usernames, password \in passwords, jti \in Jtis :
        LET user == {u \in Users : u.username = username}
        IN  IF user # {} /\ TheRow(user).password = password
            THEN /\ mOut' = [kind |-> "login", access_token |-> jti, user |-> TheRow(user).id]
                 /\ Respond(200, <<"login", username, password>>)
            ELSE /\ Respond(401, <<"login", username, password>>)
                 /\ UNCHANGED mOut
    /\ Unchanged
    /\ UNCHANGED <<biomarkers, mIn, blacklisted_tokens, files, config, session, requests>>

\* @login_required: 401 unless the session holds user_id, 0 when let through
login_required(cookie) == IF "user_id" \notin DOMAIN cookie THEN 401 ELSE 0

\* GET /api/v1/settings/language, with the cookie and the bearer token the client holds
get_language(bearers) ==
    /\ \E bearer \in bearers :
        IF login_required(session) # 0
        THEN Respond(login_required(session), <<"settings", "GET", bearer>>)
        ELSE Respond(200, <<"settings", "GET", bearer>>)
    /\ Unchanged
    /\ UNCHANGED <<biomarkers, mIn, mOut, blacklisted_tokens, files, config, session, requests>>

\* the language codes a body holds; "" for a body without one
Languages == {"", "en", "es", "fr"}

\* POST /api/v1/settings/language
set_language(bearers, languages) ==
    /\ \E bearer \in bearers, lang \in languages :
        IF login_required(session) # 0
        THEN Respond(login_required(session), <<"settings", "POST", bearer, lang>>)
             /\ UNCHANGED session
        ELSE IF lang = "" \/ lang \notin {"en", "es"}
        THEN Respond(400, <<"settings", "POST", bearer, lang>>) /\ UNCHANGED session
        ELSE /\ session' = [k \in DOMAIN session \cup {"language"} |->
                               IF k = "language" THEN lang ELSE session[k]]
             /\ Respond(200, <<"settings", "POST", bearer, lang>>)
    /\ Unchanged
    /\ UNCHANGED <<biomarkers, mIn, mOut, blacklisted_tokens, files, config, requests>>

NextSettings ==
    \/ login(Usernames, Passwords)
    \/ get_language(Bearers)
    \/ set_language(Bearers, Languages)
    \/ \E bearer \in Bearers : logout(bearer)

SpecSettings == InitDB /\ [][NextSettings]_vars

-----------------------------------------------------------------------------
(* The patient limit: only the routes that add or remove patient rows *)

MaxOver == 1

LimitCap == MAX_PATIENT_PROFILES + MaxOver

InitLimit ==
    /\ patients = {} /\ reports = {} /\ observations = {} /\ documents = {}
    /\ biomarkers = {}
    /\ resp = NoRequest
    /\ blacklisted_tokens = {} /\ files = {} /\ config = DefaultConfig
    /\ session = EmptyDict /\ requests = <<>>
    /\ mIn = NoResult /\ mOut = NoResult

NextLimit ==
    \/ rest_create_patient(LimitCap)
    \/ rest_delete_patient(LimitCap)
    \/ fhir_create_patient({"mappable"}, LimitCap)
    \/ fhir_delete_patient
    \/ post_bundle(PatientResources, LimitCap, 0, 0, FALSE)

SpecLimit == InitLimit /\ [][NextLimit]_vars

-----------------------------------------------------------------------------
(* The patient limit with requests handled at the same time: each request   *)
(* has its own session and connection; Patient.query.count() is one         *)
(* statement, db.session.add and db.session.commit() one write transaction, *)
(* and SQLite lets the statements of other connections run in between       *)

MaxRequests == 2

Idle == [at |-> "idle", route |-> "", patient_count |-> 0, status |-> 0]

\* patient_count = Patient.query.count(), and the test against the limit
count_patients(r) ==
    /\ requests[r].at = "idle"
    /\ \E route \in {"/api/v1/patients", "/fhir/Patient"} :
        LET patient_count == Cardinality(patients)
        IN  IF patient_count >= MAX_PATIENT_PROFILES
            THEN /\ requests' = [requests EXCEPT ![r] = [at |-> "done", route |-> route, patient_count |-> patient_count, status |-> 400]]
                 /\ Respond(400, NoTarget)
            ELSE /\ requests' = [requests EXCEPT ![r] = [at |-> "try", route |-> route, patient_count |-> patient_count, status |-> 0]]
                 /\ UNCHANGED resp
    /\ Unchanged
    /\ UNCHANGED <<biomarkers, mIn, mOut, blacklisted_tokens, files, config, session>>

\* the try block: the patient is built from the body, added and committed
add_and_commit(r) ==
    /\ requests[r].at = "try"
    /\ LET new_patient ==
               IF requests[r].route = "/fhir/Patient"
               THEN fhir_to_patient(FhirPatientBody(None), Uuid4("P", patients))
               ELSE Patient(sAl, None, None, None, Uuid4("P", patients))
           table == InsertRow(patients, new_patient)
       IN  IF IsRaise(new_patient) \/ ~UniqueFhirId(table)
           THEN /\ requests' = [requests EXCEPT ![r].at = "done", ![r].status = 400]
                /\ Respond(400, NoTarget)
                /\ UNCHANGED patients
           ELSE /\ requests' = [requests EXCEPT ![r].at = "done", ![r].status = 201]
                /\ Respond(201, NoTarget)
                /\ patients' = table
    /\ UNCHANGED <<reports, observations, documents>>
    /\ UNCHANGED <<biomarkers, mIn, mOut, blacklisted_tokens, files, config, session>>

\* the patients stored before the requests arrive, at most the limit
InitRace ==
    /\ \E n \in 0..MAX_PATIENT_PROFILES : patients = {StoredPatient(id, <<"P", id>>) : id \in 1..n}
    /\ reports = {} /\ observations = {} /\ documents = {}
    /\ biomarkers = {}
    /\ resp = NoRequest /\ mIn = NoResult /\ mOut = NoResult
    /\ blacklisted_tokens = {} /\ files = {} /\ config = DefaultConfig
    /\ session = EmptyDict /\ requests = [r \in 1..MaxRequests |-> Idle]

NextRace == \E r \in 1..MaxRequests : count_patients(r) \/ add_and_commit(r)

SpecRace == InitRace /\ [][NextRace]_vars

-----------------------------------------------------------------------------
(* bloodwork-tracker: the copy of the application under src/bloodwork-tracker *)

\* Model(**data.dict()); fhir_id is the column default generate_uuid
BtRow(data, uuid) == [id |-> NoId, fhir_id |-> uuid] @@ data

BtValues == {3, 5, 9}

BtRanges == {<<None, None>>, <<Some(4), Some(8)>>}

BtInterpretations == {None, Some("A")}

\* a GET is answered for the id in its path
GetTarget(patient_id) == <<"GET", "Patient", patient_id>>

bt_create_patient ==
    /\ IF Cardinality(patients) >= 4
       THEN Respond(400, NoTarget) /\ UNCHANGED patients
       ELSE /\ NextRowId(patients) <= MaxPatients
            /\ patients' = InsertRow(patients,
                                     BtRow([name |-> sAl, birth_date |-> None,
                                            gender |-> None, notes |-> None],
                                           Uuid4("P", patients)))
            /\ Respond(201, NoTarget)
    /\ UNCHANGED <<reports, observations, documents>>
    /\ Frame

\* get_or_404 is inside the try: its NotFound is caught by `except Exception`
bt_get_patient ==
    /\ \E patient_id \in 1..MaxPatients :
        IF ById(patients, patient_id) = {}
        THEN Respond(500, GetTarget(patient_id))
        ELSE Respond(200, GetTarget(patient_id))
    /\ Unchanged
    /\ Frame

\* the body shared by DELETE /api/patients/<id> and DELETE /fhir/Patient/<fhir_id>
BtDeletePatientRow(found, ok) ==
    IF found = {}
    THEN Respond(500, NoTarget) /\ Unchanged
    ELSE LET pid == TheRow(found).id
             db == SessionDeletePatient(Cur, pid)
         IN  IF IsRaise(db)
             THEN Respond(500, <<"Patient", pid>>) /\ Unchanged
             ELSE Store(db) /\ Respond(ok, <<"Patient", pid>>)

bt_delete_patient ==
    /\ \E patient_id \in 1..MaxPatients :
        BtDeletePatientRow(ById(patients, patient_id), 200)
    /\ Frame

bt_delete_patient_fhir ==
    /\ \E fhir_id \in ClientIds \cup FhirIdsOf(patients) :
        BtDeletePatientRow(ByFhirId(patients, fhir_id), 204)
    /\ Frame

bt_create_report ==
    /\ \E patient_id \in 1..MaxPatients :
        IF ById(patients, patient_id) = {}
        THEN Respond(404, NoTarget) /\ Unchanged
        ELSE /\ NextRowId(reports) <= MaxReports
             /\ reports' = InsertReport(reports,
                                        BtRow([patient_id |-> patient_id,
                                               status |-> "final",
                                               category |-> sLaboratory,
                                               effective_datetime |-> Morning,
                                               issued |-> None, conclusion |-> None,
                                               conclusion_code |-> None],
                                              Uuid4("R", reports)))
             /\ Respond(201, NoTarget)
             /\ UNCHANGED <<patients, observations, documents>>
    /\ Frame

\* "Set interpretation if not provided"
bt_interpretation(interpretation, value, ref_min, ref_max) ==
    IF Truthy(interpretation) THEN interpretation
    ELSE IF ref_min # None /\ ref_max # None
    THEN IF value < ref_min[1] THEN Some("L")
         ELSE IF value > ref_max[1] THEN Some("H")
         ELSE Some("N")
    ELSE interpretation

bt_create_observation ==
    /\ \E patient_id \in 1..MaxPatients, report_id \in 1..MaxReports,
          biomarker_id \in BiomarkerIds, value \in BtValues, range \in BtRanges,
          interpretation \in BtInterpretations :
        IF ById(patients, patient_id) = {}
        THEN Respond(404, NoTarget) /\ Unchanged
        ELSE IF ById(reports, report_id) = {}
        THEN Respond(404, NoTarget) /\ Unchanged
        ELSE IF ById(biomarkers, biomarker_id) = {}
        THEN Respond(404, NoTarget) /\ Unchanged
        ELSE /\ NextRowId(observations) <= MaxObservations
             /\ observations' =
                    InsertRow(observations,
                              BtRow([patient_id |-> patient_id, report_id |-> report_id,
                                     biomarker_id |-> biomarker_id, status |-> "final",
                                     category |-> sLaboratory,
                                     effective_datetime |-> Morning, value |-> value,
                                     ref_min |-> range[1], ref_max |-> range[2],
                                     interpretation |->
                                         bt_interpretation(interpretation, value,
                                                           range[1], range[2])],
                                    Uuid4("O", observations)))
             /\ Respond(201, NoTarget)
             /\ UNCHANGED <<patients, reports, documents>>
    /\ Frame

MaxBiomarkers == 2

\* POST /fhir/Observation: the body names its patient by fhir_id, carries no id
\* and no LOINC coding, so that map_fhir_to_observation adds a biomarker row;
\* the route adds a default report and stores the observation as mapped, and
\* map_observation_to_fhir then reads observation.issued, an attribute the
\* model lacks, after the commit
bt_create_observation_fhir ==
    /\ \E fhir_id \in ClientIds \cup FhirIdsOf(patients), value \in BtValues,
          range \in BtRanges, interpretation \in BtInterpretations :
        LET found == ByFhirId(patients, fhir_id)
        IN  IF found = {}
            THEN Respond(500, NoTarget) /\ Unchanged /\ UNCHANGED biomarkers
            ELSE LET patient_id == TheRow(found).id
                     biomarker_id == NextRowId(biomarkers)
                     report_id == NextRowId(reports)
                 IN  /\ biomarker_id <= MaxBiomarkers
                     /\ report_id <= MaxReports
                     /\ NextRowId(observations) <= MaxObservations
                     /\ biomarkers' = InsertRow(biomarkers, BareBiomarker(NoId))
                     /\ reports' = InsertReport(reports,
                                                BtRow([patient_id |-> patient_id,
                                                       status |-> "final",
                                                       category |-> sLaboratory,
                                                       effective_datetime |-> Morning,
                                                       issued |-> None, conclusion |-> None,
                                                       conclusion_code |-> None],
                                                      Uuid4("R", reports)))
                     /\ observations' =
                            InsertRow(observations,
                                      BtRow([patient_id |-> patient_id,
                                             report_id |-> report_id,
                                             biomarker_id |-> biomarker_id,
                                             status |-> "final", category |-> sLaboratory,
                                             effective_datetime |-> Morning, value |-> value,
                                             ref_min |-> range[1], ref_max |-> range[2],
                                             interpretation |-> interpretation],
                                            Uuid4("O", observations)))
                     /\ Respond(500, NoTarget)
                     /\ UNCHANGED <<patients, documents>>
    /\ UNCHANGED <<mIn, mOut, blacklisted_tokens, files, config, session, requests>>

bt_upload_document ==
    /\ \E patient_id \in 1..MaxPatients, report_id \in 0..MaxReports :
        IF ById(patients, patient_id) = {}
        THEN Respond(404, NoTarget) /\ Unchanged
        ELSE IF report_id # NoId /\ ById(reports, report_id) = {}
        THEN Respond(404, NoTarget) /\ Unchanged
        ELSE /\ NextRowId(documents) <= MaxDocuments
             /\ documents' = InsertRow(documents,
                                       BtRow([patient_id |-> patient_id,
                                              report_id |-> report_id,
                                              filename |-> "scan.pdf", description |-> ""],
                                             Uuid4("D", documents)))
             /\ Respond(201, NoTarget)
             /\ UNCHANGED <<patients, reports, observations>>
    /\ Frame

InitBT ==
    /\ patients = {} /\ reports = {} /\ observations = {} /\ documents = {}
    /\ biomarkers = {BiomarkerRow(1)}
    /\ resp = NoRequest
    /\ blacklisted_tokens = {} /\ files = {} /\ config = DefaultConfig
    /\ session = EmptyDict /\ requests = <<>>
    /\ mIn = NoResult /\ mOut = NoResult

NextBT ==
    \/ bt_create_patient
    \/ bt_get_patient
    \/ bt_delete_patient
    \/ bt_delete_patient_fhir
    \/ bt_create_report
    \/ bt_create_observation
    \/ bt_create_observation_fhir
    \/ bt_upload_document

SpecBT == InitBT /\ [][NextBT]_vars

-----------------------------------------------------------------------------
(* Round-trip properties *)

Mapped(kind) == mOut.kind = kind

\* field f of the record handed in is kept whenever it is not None
Kept(f) == mIn.rec[f] # None => mOut.rec[f] = mIn.rec[f]

\* C1: for every Patient record p, fhir_to_patient(patient_to_fhir(p)) has
\* the same fhir_id, name, gender, birth_date and notes as p, for every field
\* that is non-null in p.
C1_PatientRoundTrip ==
    Mapped("Patient") =>
        /\ ~IsRaise(mOut.rec)
        /\ mOut.rec.fhir_id = mIn.rec.fhir_id
        /\ mOut.rec.name = mIn.rec.name
        /\ Kept("gender") /\ Kept("birth_date") /\ Kept("notes")

\* C2 as stated: for every Observation record o the round trip yields a
\* record with the same fhir_id, status, category, effective_datetime, value,
\* unit, ref_min, ref_max, interpretation, notes, performer, specimen and
\* method as o, for every field that is non-null in o.
C2_ObservationRoundTrip ==
    Mapped("Observation") =>
        /\ ~IsRaise(mOut.rec)
        /\ mOut.rec.fhir_id = mIn.rec.fhir_id
        /\ mOut.rec.effective_datetime = mIn.rec.effective_datetime
        /\ Kept("status") /\ Kept("category") /\ Kept("value") /\ Kept("unit")
        /\ Kept("ref_min") /\ Kept("ref_max") /\ Kept("interpretation")
        /\ Kept("notes") /\ Kept("performer") /\ Kept("specimen") /\ Kept("method")

\* C3: the round trip of an observation keeps its biomarker_id.
C3_BiomarkerKept ==
    Mapped("Observation") /\ ~IsRaise(mOut.rec) =>
        mOut.rec.biomarker_id = mIn.rec.biomarker_id

\* C4: for every TestReport record r, fhir_to_report(report_to_fhir(r),
\* r.patient_id) has the same fhir_id, status, category, effective_datetime,
\* issued, conclusion and conclusion_code as r, for every field that is
\* non-null in r.
C4_ReportRoundTrip ==
    Mapped("DiagnosticReport") =>
        /\ ~IsRaise(mOut.rec)
        /\ mOut.rec.fhir_id = mIn.rec.fhir_id
        /\ mOut.rec.effective_datetime = mIn.rec.effective_datetime
        /\ Kept("status") /\ Kept("category") /\ Kept("issued")
        /\ Kept("conclusion") /\ Kept("conclusion_code")

-----------------------------------------------------------------------------
(* Properties of the exported JSON *)

\* key k of the export is absent whenever field f of the record is None
Absent(k, f) == mIn.rec[f] = None => k \notin DOMAIN mOut.fhir

\* C11: the JSON produced by patient_to_fhir, observation_to_fhir and
\* report_to_fhir holds no null: no key of the resource stands for a None
\* field of the record, and no member of a referenceRange entry is null.
C11_NoNullInExport ==
    /\ Mapped("Patient") =>
         Absent("gender", "gender") /\ Absent("birthDate", "birth_date")
    /\ Mapped("Observation") /\ ~IsRaise(mOut.fhir) =>
         /\ Absent("status", "status") /\ Absent("valueQuantity", "value")
         /\ Absent("specimen", "specimen") /\ Absent("method", "method")
         /\ \A i \in 1..Len(mOut.fhir.referenceRange) :
              \A k \in DOMAIN mOut.fhir.referenceRange[i] :
                 mOut.fhir.referenceRange[i][k] # None
    /\ Mapped("DiagnosticReport") /\ ~IsRaise(mOut.fhir) =>
         Absent("status", "status") /\ Absent("conclusion", "conclusion")

\* an observation with only an upper reference bound and no specimen was exported
C11_Witness ==
    /\ Mapped("Observation") /\ ~IsRaise(mOut.fhir)
    /\ mIn.rec.ref_min = None /\ mIn.rec.ref_max # None /\ mIn.rec.specimen = None
    /\ DOMAIN mOut.fhir.referenceRange[1] = {"high"}

-----------------------------------------------------------------------------
(* Properties of the import *)

\* C12: on import every optional element missing from the FHIR input maps to
\* a default without raising: the name 'Unknown Patient' when no usable name
\* is present (a name entry with an empty 'given' list included), status
\* 'unknown' and category 'laboratory' for observations and reports, and a
\* null field for every other absent optional element.
C12_ImportDefaults ==
    /\ Mapped("FhirPatient") =>
         /\ ~IsRaise(mOut.rec)
         /\ (\/ "name" \notin DOMAIN mIn.fhir
             \/ mIn.fhir.name \in {<<>>, <<EmptyDict>>, <<[given |-> <<>>]>>})
               => mOut.rec.name = sUnknownPatient
         /\ "gender" \notin DOMAIN mIn.fhir => mOut.rec.gender = None
         /\ "birthDate" \notin DOMAIN mIn.fhir => mOut.rec.birth_date = None
         /\ "note" \notin DOMAIN mIn.fhir => mOut.rec.notes = None
    /\ Mapped("FhirObservation") =>
         /\ ~IsRaise(mOut.rec)
         /\ "status" \notin DOMAIN mIn.fhir => mOut.rec.status = Some("unknown")
         /\ "category" \notin DOMAIN mIn.fhir => mOut.rec.category = Some(sLaboratory)
         /\ "valueQuantity" \notin DOMAIN mIn.fhir =>
               mOut.rec.value = None /\ mOut.rec.unit = None
         /\ "referenceRange" \notin DOMAIN mIn.fhir =>
               mOut.rec.ref_min = None /\ mOut.rec.ref_max = None
         /\ "interpretation" \notin DOMAIN mIn.fhir => mOut.rec.interpretation = None
         /\ "note" \notin DOMAIN mIn.fhir => mOut.rec.notes = None
         /\ "performer" \notin DOMAIN mIn.fhir => mOut.rec.performer = None
         /\ "specimen" \notin DOMAIN mIn.fhir => mOut.rec.specimen = None
         /\ "method" \notin DOMAIN mIn.fhir => mOut.rec.method = None
    /\ Mapped("FhirReport") =>
         /\ ~IsRaise(mOut.rec)
         /\ "status" \notin DOMAIN mIn.fhir => mOut.rec.status = Some("unknown")
         /\ "category" \notin DOMAIN mIn.fhir => mOut.rec.category = Some(sLaboratory)
         /\ "conclusion" \notin DOMAIN mIn.fhir => mOut.rec.conclusion = None
         /\ "conclusionCode" \notin DOMAIN mIn.fhir => mOut.rec.conclusion_code = None

\* C14: each FHIRMapper function is deterministic and free of side effects:
\* applied twice to the same input it returns equal results, the fhir_id of
\* the record it builds included, and it changes no stored record.
C14_Deterministic ==
    mOut # NoResult =>
        /\ mOut.again = mOut.rec
        /\ patients = {} /\ reports = {} /\ observations = {} /\ documents = {}

-----------------------------------------------------------------------------
(* Properties of the FHIR write routes *)

\* C13: a POST or PUT to /fhir/Patient, /fhir/Observation or
\* /fhir/DiagnosticReport whose body cannot be mapped is answered with an
\* error status, and every table is left exactly as it was before the request.
C13_UnmappableRejected ==
    [][resp'.target # NoTarget /\ resp'.target[1] = "body"
         => resp'.status >= 400 /\ Unchanged]_vars

\* a body that lacks what the mapper indexes was refused while a patient, a
\* report and an observation were stored
C13_Witness ==
    /\ resp = [status |-> 400, target |-> <<"body", "unmappable">>]
    /\ patients # {} /\ reports # {} /\ observations # {}

-----------------------------------------------------------------------------
(* Properties of the protected routes *)

C16_LogoutRevokes ==
    \A t \in Jtis :
        t \in blacklisted_tokens /\ resp.target = <<"jwt", t>> => resp.status \in {401, 422}

-----------------------------------------------------------------------------
(* Properties of the AI consultation *)

\* C17: while AI_SEND_TO_CLOUD is false no POST /api/v1/ai/consult request,
\* whatever the letter case of its provider string, constructs or invokes the
\* OpenAI provider; a request that names it is refused with an error.
C17_NoCloudWhenDisabled ==
    ~config.AI_SEND_TO_CLOUD /\ mIn.kind = "consult" =>
        /\ resp.target # <<"provider", "OpenAI">>
        /\ StrLower(mIn.provider) = sOpenai => resp.status >= 400

\* C20: for every existing patient generate_fhir_context returns, without
\* raising, a collection Bundle with exactly one entry for the patient, one
\* per observation and one per report of that patient, and a text summary
\* with one line per observation, whichever optional fields the observations
\* lack.
C20_ContextComplete ==
    /\ mOut.kind = "context" /\ mIn.patient_id # None /\ mOut.context # EmptyDict
    /\ ById(patients, mIn.patient_id[1]) # {}
    => LET pid == mIn.patient_id[1]
           nObs == Cardinality({o \in observations : o.patient_id = pid})
           nRep == Cardinality({r \in reports : r.patient_id = pid})
       IN  /\ ~IsRaise(mOut.context)
           /\ mOut.context.fhir_bundle.type = "collection"
           /\ Len(mOut.context.fhir_bundle.entry) = 1 + nObs + nRep
           /\ Len(mOut.context.text_summary) = nObs

-----------------------------------------------------------------------------
(* Properties of the document upload *)

\* the reasons for which an upload is to be rejected, read off the posted form
\* and the tables the request finds
RejectedUpload(form, pts, rps) ==
    \/ form.file = None
    \/ form.file[1].filename = << <<>> >>
    \/ form.patient_id = 0
    \/ ById(pts, form.patient_id) = {}
    \/ form.report_id # 0 /\ ById(rps, form.report_id) = {}
    \/ Len(form.file[1].filename) < 2
    \/ StrLower(form.file[1].filename[Len(form.file[1].filename)]) \notin ALLOWED_FILE_TYPES
    \/ form.file[1].size > FILE_UPLOAD_MAX_SIZE

\* C18: an upload with no file, an empty file name, no patient_id, an unknown
\* patient, an unknown report, a disallowed extension or a size above
\* FILE_UPLOAD_MAX_SIZE adds no medical_documents row and writes no file
C18_RejectedUploadWritesNothing == [][resp'.target # NoTarget /\ resp'.target[1] = "upload" /\ RejectedUpload(resp'.target[2], patients, reports) => documents' = documents /\ files' = files]_vars

\* an oversized file is refused with 400 after an earlier upload stored a row
\* and a file
C18_Witness ==
    /\ resp.target # NoTarget /\ resp.target[1] = "upload" /\ resp.status = 400
    /\ resp.target[2].file # None
    /\ resp.target[2].file[1].filename = <<sScan, sPdf>>
    /\ resp.target[2].file[1].size > FILE_UPLOAD_MAX_SIZE
    /\ resp.target[2].patient_id # 0
    /\ documents # {} /\ files # {}

-----------------------------------------------------------------------------
(* Properties of create_bundle *)

HasId(resource) == "id" \in DOMAIN resource

\* C21 as stated: the Bundle has the requested type and one entry per input
\* resource, in input order, each with that resource and its fullUrl
C21_OneEntryPerResource ==
    mOut.kind = "Bundle" =>
        /\ mOut.bundle.type = mIn.type
        /\ Len(mOut.bundle.entry) = Len(mIn.resources)
        /\ \A i \in 1..Len(mIn.resources) :
            /\ mOut.bundle.entry[i].resource = mIn.resources[i]
            /\ HasId(mIn.resources[i])
            /\ mOut.bundle.entry[i].fullUrl = FullUrl(mIn.resources[i])

\* C21 amended: the Bundle has the requested type and one entry per input
\* resource that has an id, in input order, each with that resource and its
\* fullUrl; a resource without an id has no entry
C21_OneEntryPerIdentified ==
    mOut.kind = "Bundle" =>
        LET identified == SelectSeq(mIn.resources, HasId)
        IN  /\ mOut.bundle.resourceType = "Bundle"
            /\ mOut.bundle.type = mIn.type
            /\ Len(mOut.bundle.entry) = Len(identified)
            /\ \A i \in 1..Len(identified) :
                /\ mOut.bundle.entry[i].resource = identified[i]
                /\ mOut.bundle.entry[i].fullUrl = FullUrl(identified[i])

\* a Bundle of two entries made from three resources, the second without id
C21_Witness ==
    /\ mOut.kind = "Bundle"
    /\ Len(mIn.resources) = 3 /\ ~HasId(mIn.resources[2])
    /\ HasId(mIn.resources[1]) /\ HasId(mIn.resources[3])
    /\ mIn.resources[1] # mIn.resources[3]
    /\ Len(mOut.bundle.entry) = 2

-----------------------------------------------------------------------------
(* Properties of the Bundle import *)

\* processing one of the entries from the i-th on raises, the earlier ones
\* having brought the session to db
RECURSIVE SomeEntryRaises(_, _, _)
SomeEntryRaises(entries, i, db) ==
    /\ i <= Len(entries)
    /\ LET next == import_entry(db, entries[i])
       IN  IsRaise(next) \/ ~ConstraintsOk(next) \/ SomeEntryRaises(entries, i + 1, next)

\* C22: when processing an entry of a posted Bundle raises, the response is
\* an error and the request leaves every table as it found it
C22_AllOrNothing == [][resp'.target # NoTarget /\ resp'.target[1] = "bundle" /\ SomeEntryRaises(resp'.target[2], 1, Cur) => resp'.status >= 400 /\ Unchanged]_vars

\* a Bundle whose first entry is a new patient and whose second entry cannot
\* be mapped was answered 400 and left the empty patients table empty
C22_Witness ==
    /\ resp.target # NoTarget /\ resp.target[1] = "bundle" /\ resp.status = 400
    /\ Len(resp.target[2]) = 2
    /\ resp.target[2][1].resource = FhirPatientBody(Some(ClientFhirId))
    /\ resp.target[2][2].resource = Shaped(FhirPatientBody(None), "unmappable")
    /\ patients = {}

\* the entries are a Patient resource with this id followed by Observation
\* resources whose subject is that patient, all as a client builds them
PatientWithObservations(entries, id) ==
    /\ Len(entries) >= 2
    /\ entries[1].resource = FhirPatientBody(Some(id))
    /\ \A i \in 2..Len(entries) :
        \E oid \in IdChoices : entries[i].resource = FhirObservationBody(oid, id)

\* C23: a Bundle of a new Patient and Observations of that patient, without a
\* DiagnosticReport, is imported: the answer is 201, the patient has a report
\* and each of the patient's observations references a report of the patient
C23_DefaultReport == [][\A id \in ClientIds : resp'.target # NoTarget /\ resp'.target[1] = "bundle" /\ PatientWithObservations(resp'.target[2], id) /\ ByFhirId(patients, id) = {} => resp'.status = 201 /\ \E p \in ByFhirId(patients', id) : (\E r \in reports' : r.patient_id = p.id) /\ (\E o \in observations' : o.patient_id = p.id) /\ (\A o \in observations' : o.patient_id = p.id => \E r \in reports' : r.id = o.report_id /\ r.patient_id = p.id)]_vars

\* C24: no request changes the patient_id of a report that exists
C24_ReportKeepsPatient == [][\A r \in reports : \A s \in reports' : s.id = r.id => s.patient_id = r.patient_id]_vars

-----------------------------------------------------------------------------
(* Properties of PATCH on a patient *)

\* the column a body member is stored in
ColumnOf(k) ==
    CASE k = "birthDate" -> "birth_date"
      [] k = "note" -> "notes"
      [] OTHER -> k

\* the value the body gives the column, for a body the route accepts
GivenValue(route, body, k) ==
    IF route = "rest"
    THEN CASE k = "name" -> body.name[1]
           [] k = "birth_date" ->
                 IF body.birth_date = None THEN None
                 ELSE Some(Date(body.birth_date[1][1], body.birth_date[1][2],
                                body.birth_date[1][3]))
           [] OTHER -> body[k]
    ELSE CASE k = "name" ->
                 StrStrip(NameOf(IF body.name # <<>> THEN body.name[1] ELSE EmptyDict))
           [] k = "birthDate" -> Some(fromisoformat(body.birthDate[1]))
           [] k = "note" ->
                 IF body.note = <<>> THEN None ELSE GetOpt(body.note[1], "text")
           [] OTHER -> body[k]

\* /fhir keeps the stored name when the given one is empty once stripped, and
\* the stored notes when the note list is empty or its first entry has no text
KeepsStored(route, body, k) ==
    /\ route = "fhir"
    /\ \/ k = "name" /\ GivenValue(route, body, k) = <<>>
       \/ k = "note" /\ GivenValue(route, body, k) = None

\* the rows other than the patient the request names are as they were
OthersUnchanged(req) ==
    /\ \A p \in patients : p.id # req.id => p \in patients'
    /\ Cardinality(patients') = Cardinality(patients)
    /\ UNCHANGED <<reports, observations, documents>>

\* the columns outside cols are as they were
ColumnsUnchanged(old, new, cols) == \A f \in DOMAIN old \ cols : new[f] = old[f]

ColumnsOf(body) == {ColumnOf(k) : k \in DOMAIN body}

\* as stated: only the columns of the members present change, and every
\* member present is applied
AppliesPresent(req, old, new) ==
    /\ OthersUnchanged(req)
    /\ ColumnsUnchanged(old, new, ColumnsOf(req.body))
    /\ resp'.status = 200
    /\ \A k \in DOMAIN req.body : new[ColumnOf(k)] = GivenValue(req.route, req.body, k)

\* amended
AppliesAccepted(req, old, new) ==
    /\ OthersUnchanged(req)
    /\ ColumnsUnchanged(old, new, ColumnsOf(req.body) \cup {"updated_at"})
    /\ resp'.status # 200 => new = old
    /\ resp'.status = 200 =>
          \A k \in DOMAIN req.body :
              new[ColumnOf(k)] = IF KeepsStored(req.route, req.body, k)
                                 THEN old[ColumnOf(k)]
                                 ELSE GivenValue(req.route, req.body, k)

\* the request that was just answered, and the patient it named before and after
Patched(P(_, _, _)) ==
    resp'.target # NoTarget /\ resp'.target[1] = "patch" /\ resp'.target[2].id # NoId =>
        LET req == resp'.target[2]
        IN  P(req, TheRow(ById(patients, req.id)), TheRow(ById(patients', req.id)))

\* C25 as stated: a PATCH on a patient changes only the columns of the body
\* members present, leaves every other row alone, and applies every member
\* present
C25_PatchAppliesPresent == [][Patched(AppliesPresent)]_vars

\* C25 amended: a PATCH on a patient changes only the columns of the members
\* present and updated_at, and leaves every other row alone; a request
\* answered 200 has applied every member present, except that /fhir keeps the
\* stored name or notes when the body gives an empty one; a request answered
\* with an error changes nothing
C25_PatchAppliesAccepted == [][Patched(AppliesAccepted)]_vars

\* a PATCH of the gender and the notes alone was answered 200 and stored both
C25_Witness ==
    /\ resp.target # NoTarget /\ resp.target[1] = "patch" /\ resp.status = 200
    /\ DOMAIN resp.target[2].body = {"gender", "notes"}
    /\ \E p \in ById(patients, resp.target[2].id) :
        /\ p.gender = Some(sFemale) /\ p.notes = Some("y")
        /\ p.name = sAl /\ p.birth_date = Some(Date(1990, 1, 1))

-----------------------------------------------------------------------------
(* Properties of the reads by patient *)

ReturnedOnlyOf(p) ==
    /\ \A q \in mOut.patients : q.id = p.id
    /\ \A o \in mOut.observations : o.patient_id = p.id
    /\ \A r \in mOut.reports : r.patient_id = p.id

ReturnedNothing == mOut.patients = {} /\ mOut.observations = {} /\ mOut.reports = {}

\* C27: a read with ?patient=<value> returns only resources of one patient the
\* value identifies, by row id or by fhir_id, and returns no resource at all
\* when the value identifies no patient
C27_ReadsOnlyThePatient ==
    (mOut.kind = "read" /\ mOut.patient # None) =>
        \/ ReturnedNothing
        \/ \E p \in PatientsMatching(mOut.patient) : ReturnedOnlyOf(p)

-----------------------------------------------------------------------------
(* Properties of the export and re-import *)

Reimported == resp.status = 0 /\ resp'.status # 0

\* C28: posting back the Bundle that GET /fhir/Bundle exported for a patient
\* leaves every patient, report and observation row as it was, with the same
\* report and biomarker of each observation, and adds no row
C28_ReimportChangesNothing == [][Reimported => (patients' = patients /\ reports' = reports /\ observations' = observations)]_vars

-----------------------------------------------------------------------------
(* Properties of the patient limit with requests handled at the same time *)

\* C29: whatever the order of the steps of two create-patient requests, the
\* number of patients never exceeds MAX_PATIENT_PROFILES: of two requests that
\* both counted 3 patients, at most one is answered 201
C29_LimitUnderInterleaving == Cardinality(patients) <= MAX_PATIENT_PROFILES

-----------------------------------------------------------------------------
(* Properties of login and the settings routes *)

\* the client has logged in and holds the access token of the login
LoggedIn == mOut.kind = "login"

\* a request to /api/v1/settings/language that carries that token
SettingsRequest == resp' # resp /\ resp'.target # <<>> /\ resp'.target[1] = "settings" /\ resp'.target[3] = mOut.access_token

\* C30: after a successful POST /api/v1/auth/login, a GET or POST to
\* /api/v1/settings/language by that user is not answered 401
C30_LoggedInReachesSettings == [][(LoggedIn /\ SettingsRequest) => resp'.status # 401]_vars

-----------------------------------------------------------------------------
(* Properties of the stored rows *)

Success == {200, 204}

\* the id of the row of this kind that the last response's DELETE addressed
Deleted(kind) == IF resp.target # NoTarget /\ resp.target[1] = kind THEN {resp.target[2]} ELSE {}

\* C5: in every reachable state every observation's patient_id, report_id and
\* biomarker_id, and every report's patient_id, is the id of a row that exists.
C5_ReferentialIntegrity ==
    /\ \A o \in observations :
        /\ \E p \in patients : p.id = o.patient_id
        /\ \E r \in reports : r.id = o.report_id
        /\ \E b \in biomarkers : b.id = o.biomarker_id
    /\ \A r \in reports : \E p \in patients : p.id = r.patient_id

\* C26: in every reachable state an observation and the report it references
\* have the same patient_id.
C26_ObservationOfReportPatient ==
    \A o \in observations : \A r \in reports :
        r.id = o.report_id => o.patient_id = r.patient_id

C7_PatientDeleteCascades ==
    \A pid \in Deleted("Patient") :
        resp.status \in Success =>
            /\ \A r \in reports : r.patient_id # pid
            /\ \A o \in observations : o.patient_id # pid
            /\ \A d \in documents : d.patient_id # pid

\* a patient was deleted while another patient's report, observation and
\* document stay
C7_Witness ==
    /\ Deleted("Patient") # {} /\ resp.status \in Success
    /\ patients # {} /\ reports # {} /\ observations # {} /\ documents # {}

\* C8: when a DELETE of a report has just succeeded, no observation and no
\* document row references that report.
C8_ReportDeleteDetaches ==
    \A rid \in Deleted("DiagnosticReport") :
        resp.status \in Success =>
            /\ \A o \in observations : o.report_id # rid
            /\ \A d \in documents : d.report_id # rid

\* a report was deleted and a document is left without a report
C8_Witness ==
    /\ Deleted("DiagnosticReport") # {} /\ resp.status \in Success
    /\ \E d \in documents : d.report_id = NoId

\* C9: in bloodwork-tracker, once a DELETE of an existing patient has been
\* answered, the answer is a success and neither the patient nor a row that
\* references it exists.
C9_BtPatientDelete ==
    /\ \A pid \in Deleted("Patient") :
        /\ resp.status \in Success
        /\ \A p \in patients : p.id # pid
        /\ \A r \in reports : r.patient_id # pid
        /\ \A o \in observations : o.patient_id # pid
        /\ \A d \in documents : d.patient_id # pid

\* C19: in bloodwork-tracker, a stored observation with both reference bounds
\* whose interpretation was not given by the client has interpretation L below
\* ref_min, H above ref_max and N otherwise, whichever route created it.
C19_BtInterpretation ==
    \A o \in observations :
        o.ref_min # None /\ o.ref_max # None /\ o.interpretation \notin BtInterpretations \ {None}
            => o.interpretation = Some(IF o.value < o.ref_min[1] THEN "L"
                                       ELSE IF o.value > o.ref_max[1] THEN "H" ELSE "N")

\* C10: in every reachable state there are at most MAX_PATIENT_PROFILES
\* patient rows.
C10_PatientLimit == Cardinality(patients) <= MAX_PATIENT_PROFILES

====
